---- MODULE Spec2Model ----
(***************************************************************************)
(* Variant interpretation core of VNTyper (saei2021/ADTKD):               *)
(*   - process_kmer_results (kestrel_genotyping.py): frameshift           *)
(*     classifier, confidence scorer, ALT filter;                          *)
(*   - motif_correction_and_annotation (motif_processing.py): the motif    *)
(*     resolver.                                                           *)
(* A table (pandas DataFrame) is a sequence of rows, a row is a record of  *)
(* its columns, and a text value (Python str) is a sequence of one-        *)
(* character strings, so that split, replace, contains and len are         *)
(* computed on the characters as the code computes them.                   *)
(***************************************************************************)
EXTENDS Integers, Sequences, FiniteSets, TLC

VARIABLES
    pc,             \* position of the running function ("step1".."done", "raised")
    err,            \* exception propagating out of the running function, or "none"
    combined_df,    \* the table process_kestrel_output passes to process_kmer_results
    df,             \* the local table `df` of process_kmer_results
    mca_df,         \* the caller's table object passed to motif_correction_and_annotation
    kestrel_config, \* kestrel_config['motif_filtering'] of that call
    motif_left,     \* local motif_left of motif_correction_and_annotation
    motif_right,    \* local motif_right of motif_correction_and_annotation
    mca_result,     \* the table motif_correction_and_annotation returns
    keys_read,      \* the keys motif_correction_and_annotation has read from kestrel_config
    sort_memo,      \* what the installation's unstable sort has returned, for which table
    first_run,      \* the outcome of the first of two runs on the same inputs
    same_build,     \* the second run is on the installation of the first
    arg_before,     \* the caller's table as it was when the running stage was called
    vcf,            \* the caller's table object passed to preprocessing_insertion / _deletion
    muc1_ref,       \* the motif catalog passed to preprocessing_insertion / _deletion
    pre_df,         \* the table preprocessing_insertion / _deletion returns
    kmer_sizes,     \* kestrel_settings["kmer_sizes"] of a run of run_kestrel
    kmer_index,     \* position of run_kestrel's loop in kmer_sizes
    fastq_given,    \* both FASTQ arguments of run_kestrel are non-empty
    vcf_is_file,    \* the file vcf_path exists
    kestrel_log     \* what the run has done: launches, the call of the core, files written

vars == <<pc, err, combined_df, df, mca_df, kestrel_config, motif_left, motif_right, mca_result,
          keys_read, sort_memo, first_run, same_build, arg_before, vcf, muc1_ref, pre_df,
          kmer_sizes, kmer_index, fastq_given, vcf_is_file, kestrel_log>>
kmerVars == <<combined_df, df>>
mcaVars == <<mca_df, kestrel_config, motif_left, motif_right, mca_result, keys_read, sort_memo>>
runVars == <<first_run, same_build>>
preVars == <<vcf, muc1_ref, pre_df>>
\* what neither process_kmer_results nor motif_correction_and_annotation touches
kestrelVars == <<kmer_sizes, kmer_index, fastq_given, vcf_is_file, kestrel_log>>
envVars == <<arg_before, preVars, kestrelVars>>

-----------------------------------------------------------------------------
(* Bounds of the model *)

\* longest REF / ALT allele of the frameshift-classifier inputs
MaxLen == 34

\* largest alternate-allele depth of the confidence-scorer inputs
MaxAltDepth == 104

\* the coarse grid of active-region depths: RegionStep, 2 * RegionStep, ...
RegionStep == 1500

MaxRegionSteps == 15

\* most rows of a table passed to motif_correction_and_annotation
MaxRows == 2

\* most rows of a candidate table passed to process_kmer_results as a batch
MaxBatch == 2

\* most rows of a table the resolver is run on twice
MaxTwiceRows == 2

-----------------------------------------------------------------------------
(* Text helpers: Python str operations on sequences of characters *)

\* a missing value (None / NaN) in a text column
None == <<"None">>

Max(S) == CHOOSE x \in S : \A y \in S : y <= x

RECURSIVE SplitAcc(_, _, _, _)
SplitAcc(s, sep, i, cur) ==
    IF i > Len(s) THEN <<cur>>
    ELSE IF s[i] = sep THEN <<cur>> \o SplitAcc(s, sep, i + 1, <<>>)
    ELSE SplitAcc(s, sep, i + 1, Append(cur, s[i]))

\* s.split(sep) for a one-character separator
str_split(s, sep) == SplitAcc(s, sep, 1, <<>>)

\* s.count(c) for a one-character c
str_count(s, c) == Cardinality({i \in 1..Len(s) : s[i] = c})

\* `sub in s`
str_contains(s, sub) ==
    \E i \in 1..(Len(s) - Len(sub) + 1) : SubSeq(s, i, i + Len(sub) - 1) = sub

RECURSIVE ReplaceFrom(_, _, _, _)
ReplaceFrom(s, old, new, i) ==
    IF i > Len(s) THEN <<>>
    ELSE IF i + Len(old) - 1 <= Len(s) /\ SubSeq(s, i, i + Len(old) - 1) = old
         THEN new \o ReplaceFrom(s, old, new, i + Len(old))
         ELSE <<s[i]>> \o ReplaceFrom(s, old, new, i + 1)

\* s.replace(old, new): every non-overlapping occurrence, left to right
str_replace(s, old, new) == ReplaceFrom(s, old, new, 1)

Digit(d) == CASE d = 0 -> "0" [] d = 1 -> "1" [] d = 2 -> "2" [] d = 3 -> "3"
              [] d = 4 -> "4" [] d = 5 -> "5" [] d = 6 -> "6" [] d = 7 -> "7"
              [] d = 8 -> "8" [] d = 9 -> "9"

DigitValue(c) == CASE c = "0" -> 0 [] c = "1" -> 1 [] c = "2" -> 2 [] c = "3" -> 3
                   [] c = "4" -> 4 [] c = "5" -> 5 [] c = "6" -> 6 [] c = "7" -> 7
                   [] c = "8" -> 8 [] c = "9" -> 9

Digits == {"0", "1", "2", "3", "4", "5", "6", "7", "8", "9"}

RECURSIVE IntToStr(_)
\* str(n) of a non-negative integer
IntToStr(n) == IF n < 10 THEN <<Digit(n)>> ELSE Append(IntToStr(n \div 10), Digit(n % 10))

\* int(s) succeeds on a non-empty run of decimal digits
IsIntText(s) == s # None /\ Len(s) > 0 /\ \A i \in 1..Len(s) : s[i] \in Digits

RECURSIVE StrToInt(_)
StrToInt(s) == IF Len(s) = 0 THEN 0
               ELSE 10 * StrToInt(SubSeq(s, 1, Len(s) - 1)) + DigitValue(s[Len(s)])

\* rows of t, in order, that satisfy Test
Filter(t, Test(_)) == SelectSeq(t, Test)

\* t with f applied to every row
Map(t, f(_)) ==
    LET F[k \in 0..Len(t)] == IF k = 0 THEN <<>> ELSE Append(F[k - 1], f(t[k]))
    IN  F[Len(t)]

\* rows of t whose index is in S, in the order of t
Pick(t, S) ==
    LET F[k \in 0..Len(t)] ==
            IF k = 0 THEN <<>>
            ELSE IF k \in S THEN Append(F[k - 1], t[k]) ELSE F[k - 1]
    IN  F[Len(t)]

-----------------------------------------------------------------------------
(* Frameshift classifier: kestrel_genotyping.py, functions 1 to 3 *)

Abs(n) == IF n < 0 THEN 0 - n ELSE n

\* delta / 3 cut to two decimals instead of rounded (0.66 for 2 / 3)
RoundedHundredths_truncated(delta) ==
    IF delta < 0 THEN 0 - ((100 * Abs(delta)) \div 3) ELSE (100 * delta) \div 3

\* round(delta / 3, 2) in hundredths: delta * 100 / 3 is never half way
\* between two integers, so rounding is to the nearest integer
RoundedHundredths(delta) ==
    IF delta < 0 THEN 0 - ((200 * Abs(delta) + 3) \div 6) ELSE (200 * delta + 3) \div 6

\* str() of the float h / 100: sign, integer part, '.', then the fraction
\* without trailing zeros but with at least one digit
FloatStr(h) ==
    LET a == Abs(h)
        frac == a % 100
        fracText == IF frac % 10 = 0 THEN <<Digit(frac \div 10)>>
                    ELSE <<Digit(frac \div 10), Digit(frac % 10)>>
    IN  (IF h < 0 THEN <<"-">> ELSE <<>>) \o IntToStr(a \div 100) \o <<".">> \o fracText

\* lines 195-196: the frame score as text, '.0' replaced by 'C'
Frame_Score(ref, alt) ==
    str_replace(FloatStr(RoundedHundredths(Len(alt) - Len(ref))), <<".", "0">>, <<"C">>)

\* line 185: number of columns str.split(':', expand=True) produces
SplitWidth(t, col, sep) ==
    IF Len(t) = 0 THEN 0 ELSE Max({Len(str_split(t[i][col], sep)) : i \in 1..Len(t)})

\* the k-th column of str.split(expand=True): None where the row has fewer parts
SplitPart(s, sep, k) ==
    LET parts == str_split(s, sep) IN IF k <= Len(parts) THEN parts[k] ELSE None

\* lines 182-199 for one row
FrameScoredRow(r) ==
    LET fs == Frame_Score(r.REF, r.ALT) IN
    [Motifs |-> r.Motifs, Variant |-> r.Variant, POS |-> r.POS, REF |-> r.REF,
     ALT |-> r.ALT, Motif_sequence |-> r.Motif_sequence,
     Estimated_Depth_AlternateVariant |-> SplitPart(r.Sample, ":", 2),
     Estimated_Depth_Variant_ActiveRegion |-> SplitPart(r.Sample, ":", 3),
     ref_len |-> Len(r.REF), alt_len |-> Len(r.ALT),
     Frame_Score |-> fs, TrueFalse |-> str_contains(fs, <<"C">>)]

NotInFrame(r) == r.TrueFalse = FALSE

\* the table split_depth_and_calculate_frame_score returns
split_depth_and_calculate_frame_score(t) == Filter(Map(t, FrameScoredRow), NotInFrame)

\* lines 210-216 for one row
SplitFrameRow(r) ==
    LET l == SplitPart(r.Frame_Score, ".", 1) IN
    [Motifs |-> r.Motifs, Variant |-> r.Variant, POS |-> r.POS, REF |-> r.REF,
     ALT |-> r.ALT, Motif_sequence |-> r.Motif_sequence,
     Estimated_Depth_AlternateVariant |-> r.Estimated_Depth_AlternateVariant,
     Estimated_Depth_Variant_ActiveRegion |-> r.Estimated_Depth_Variant_ActiveRegion,
     Frame_Score |-> r.Frame_Score,
     left |-> IF l = <<"-", "0">> THEN <<"-", "1">> ELSE l,
     right |-> SplitPart(r.Frame_Score, ".", 2)]

split_frame_score(t) == Map(t, SplitFrameRow)

IsIns(r) == ~ str_contains(r.left, <<"-">>) /\ str_contains(r.right, <<"3", "3">>)

\* the deletion class matched on the fraction of the insertion class
IsDel_fraction33(r) == str_contains(r.left, <<"-">>) /\ str_contains(r.right, <<"3", "3">>)

IsDel(r) == str_contains(r.left, <<"-">>) /\ str_contains(r.right, <<"6", "7">>)

\* lines 226-230: the insertion-class rows, then the deletion-class rows
extract_frameshifts(t) == Filter(t, IsIns) \o Filter(t, IsDel)

-----------------------------------------------------------------------------
(* Confidence scorer: kestrel_genotyping.py, function 4 *)

\* A float64 quotient of two int64 columns is kept as the fraction num / den:
\* den = 0 with num > 0 is inf, 0 / 0 is NaN (pandas raises nothing on a zero
\* divisor).  Comparing num * d with n * den decides a / r against n / d as
\* the float comparison does: two different fractions with r below 10^9
\* differ by more than 10^-14, far above the rounding error of the division.
Quotient(a, r) == [num |-> a, den |-> r]

IsNaN(x) == x.den = 0 /\ x.num = 0

IsInf(x) == x.den = 0 /\ x.num > 0

\* x <= y on floats: False when either side is NaN
FLeq(x, y) ==
    IF IsNaN(x) \/ IsNaN(y) THEN FALSE
    ELSE IF IsInf(y) THEN TRUE
    ELSE IF IsInf(x) THEN FALSE
    ELSE x.num * y.den <= y.num * x.den

\* the literals 0.00469 and 0.00515
LowCut == [num |-> 469, den |-> 100000]

\* the literal of rules 5 and 6 with a digit lost: 0.0515
HighCut_tenfold == [num |-> 515, den |-> 10000]

HighCut == [num |-> 515, den |-> 100000]

\* rule 3 with >= in place of >: alt_depth = 100 becomes High_Precision
assign_confidence_rule3_geq(row) ==
    LET depth_score == row.Depth_Score
        alt_depth == row.Estimated_Depth_AlternateVariant
        var_active_region == row.Estimated_Depth_Variant_ActiveRegion
    IN  IF FLeq(depth_score, LowCut) \/ var_active_region <= 200 THEN "Low_Precision"
        ELSE IF 21 <= alt_depth /\ alt_depth <= 100
                /\ FLeq(LowCut, depth_score) /\ FLeq(depth_score, HighCut) THEN "Low_Precision"
        ELSE IF alt_depth >= 100 THEN "High_Precision"
        ELSE IF alt_depth <= 20 THEN "Low_Precision"
        ELSE IF 21 <= alt_depth /\ alt_depth < 100 /\ FLeq(HighCut, depth_score) THEN "High_Precision"
        ELSE IF alt_depth >= 100 /\ FLeq(HighCut, depth_score) THEN "High_Precision*"
        ELSE "Low_Precision"

\* rule 1 without its test of the active-region depth
assign_confidence_no_region_test(row) ==
    LET depth_score == row.Depth_Score
        alt_depth == row.Estimated_Depth_AlternateVariant
        var_active_region == row.Estimated_Depth_Variant_ActiveRegion
    IN  IF FLeq(depth_score, LowCut) THEN "Low_Precision"
        ELSE IF 21 <= alt_depth /\ alt_depth <= 100
                /\ FLeq(LowCut, depth_score) /\ FLeq(depth_score, HighCut) THEN "Low_Precision"
        ELSE IF alt_depth > 100 THEN "High_Precision"
        ELSE IF alt_depth <= 20 THEN "Low_Precision"
        ELSE IF 21 <= alt_depth /\ alt_depth < 100 /\ FLeq(HighCut, depth_score) THEN "High_Precision"
        ELSE IF alt_depth >= 100 /\ FLeq(HighCut, depth_score) THEN "High_Precision*"
        ELSE "Low_Precision"

\* the sixth branch returning Low_Precision: a call of 99 alternate reads
\* can be high precision and one of 100 not
assign_confidence_rule6_low(row) ==
    LET depth_score == row.Depth_Score
        alt_depth == row.Estimated_Depth_AlternateVariant
        var_active_region == row.Estimated_Depth_Variant_ActiveRegion
    IN  IF FLeq(depth_score, LowCut) \/ var_active_region <= 200 THEN "Low_Precision"
        ELSE IF 21 <= alt_depth /\ alt_depth <= 100
                /\ FLeq(LowCut, depth_score) /\ FLeq(depth_score, HighCut) THEN "Low_Precision"
        ELSE IF alt_depth > 100 THEN "High_Precision"
        ELSE IF alt_depth <= 20 THEN "Low_Precision"
        ELSE IF 21 <= alt_depth /\ alt_depth < 100 /\ FLeq(HighCut, depth_score) THEN "High_Precision"
        ELSE IF alt_depth >= 100 /\ FLeq(HighCut, depth_score) THEN "Low_Precision"
        ELSE "Low_Precision"

\* lines 247-265
assign_confidence(row) ==
    LET depth_score == row.Depth_Score
        alt_depth == row.Estimated_Depth_AlternateVariant
        var_active_region == row.Estimated_Depth_Variant_ActiveRegion
    IN  IF FLeq(depth_score, LowCut) \/ var_active_region <= 200 THEN "Low_Precision"
        ELSE IF 21 <= alt_depth /\ alt_depth <= 100
                /\ FLeq(LowCut, depth_score) /\ FLeq(depth_score, HighCut) THEN "Low_Precision"
        ELSE IF alt_depth > 100 THEN "High_Precision"
        ELSE IF alt_depth <= 20 THEN "Low_Precision"
        ELSE IF 21 <= alt_depth /\ alt_depth < 100 /\ FLeq(HighCut, depth_score) THEN "High_Precision"
        ELSE IF alt_depth >= 100 /\ FLeq(HighCut, depth_score) THEN "High_Precision*"
        ELSE "Low_Precision"

\* the branches with '<' in place of '<=' in the second: alt_depth = 100
\* with a depth_score between the two literals reaches the last one
assign_confidence_branch_rule2_below_100(row) ==
    LET depth_score == row.Depth_Score
        alt_depth == row.Estimated_Depth_AlternateVariant
        var_active_region == row.Estimated_Depth_Variant_ActiveRegion
    IN  IF FLeq(depth_score, LowCut) \/ var_active_region <= 200 THEN 1
        ELSE IF 21 <= alt_depth /\ alt_depth < 100
                /\ FLeq(LowCut, depth_score) /\ FLeq(depth_score, HighCut) THEN 2
        ELSE IF alt_depth > 100 THEN 3
        ELSE IF alt_depth <= 20 THEN 4
        ELSE IF 21 <= alt_depth /\ alt_depth < 100 /\ FLeq(HighCut, depth_score) THEN 5
        ELSE IF alt_depth >= 100 /\ FLeq(HighCut, depth_score) THEN 6
        ELSE 7

\* lines 252-265: the number of the branch of the if / elif chain that
\* returns, 7 for the final else
assign_confidence_branch(row) ==
    LET depth_score == row.Depth_Score
        alt_depth == row.Estimated_Depth_AlternateVariant
        var_active_region == row.Estimated_Depth_Variant_ActiveRegion
    IN  IF FLeq(depth_score, LowCut) \/ var_active_region <= 200 THEN 1
        ELSE IF 21 <= alt_depth /\ alt_depth <= 100
                /\ FLeq(LowCut, depth_score) /\ FLeq(depth_score, HighCut) THEN 2
        ELSE IF alt_depth > 100 THEN 3
        ELSE IF alt_depth <= 20 THEN 4
        ELSE IF 21 <= alt_depth /\ alt_depth < 100 /\ FLeq(HighCut, depth_score) THEN 5
        ELSE IF alt_depth >= 100 /\ FLeq(HighCut, depth_score) THEN 6
        ELSE 7

\* lines 253-265: what each branch returns
BranchLabel ==
    <<"Low_Precision", "Low_Precision", "High_Precision", "Low_Precision",
      "High_Precision", "High_Precision*", "Low_Precision">>

\* lines 240-244 for one row whose depth columns hold integer text
DepthScoredRow(r) ==
    LET a == StrToInt(r.Estimated_Depth_AlternateVariant)
        v == StrToInt(r.Estimated_Depth_Variant_ActiveRegion)
    IN  [Motifs |-> r.Motifs, Variant |-> r.Variant, POS |-> r.POS, REF |-> r.REF,
         ALT |-> r.ALT, Motif_sequence |-> r.Motif_sequence,
         Estimated_Depth_AlternateVariant |-> a,
         Estimated_Depth_Variant_ActiveRegion |-> v,
         Frame_Score |-> r.Frame_Score, left |-> r.left, right |-> r.right,
         Depth_Score |-> Quotient(a, v)]

\* line 268 for one row
ConfidenceRow(r) ==
    [Motifs |-> r.Motifs, Variant |-> r.Variant, POS |-> r.POS, REF |-> r.REF,
     ALT |-> r.ALT, Motif_sequence |-> r.Motif_sequence,
     Estimated_Depth_AlternateVariant |-> r.Estimated_Depth_AlternateVariant,
     Estimated_Depth_Variant_ActiveRegion |-> r.Estimated_Depth_Variant_ActiveRegion,
     Frame_Score |-> r.Frame_Score, left |-> r.left, right |-> r.right,
     Depth_Score |-> r.Depth_Score, Confidence |-> assign_confidence(r)]

ScoredRow(r) == ConfidenceRow(DepthScoredRow(r))

calculate_depth_score_and_assign_confidence(t) == Map(t, ScoredRow)

\* astype(int) of a text column: TypeError on a missing value, ValueError on
\* text that is no integer, "none" when every value converts
AstypeIntError(t, col) ==
    IF \E i \in 1..Len(t) : t[i][col] = None THEN "TypeError"
    ELSE IF \E i \in 1..Len(t) : ~ IsIntText(t[i][col]) THEN "ValueError"
    ELSE "none"

-----------------------------------------------------------------------------
(* ALT filter: kestrel_genotyping.py, function 5 *)

WordChars == Digits \cup {"A", "C", "G", "T", "N", "X", "B", "_"}

\* re.search(r'\b' + w + r'\b', s) for a word w of word characters
word_contains(s, w) ==
    \E i \in 1..(Len(s) - Len(w) + 1) :
        /\ SubSeq(s, i, i + Len(w) - 1) = w
        /\ (i = 1 \/ s[i - 1] \notin WordChars)
        /\ (i + Len(w) - 1 = Len(s) \/ s[i + Len(w)] \notin WordChars)

IsGG(r) == r.ALT = <<"G", "G">>

NotGG(r) == r.ALT # <<"G", "G">>

GGAboveCut(r) == r.ALT = <<"G", "G">> /\ FLeq(LowCut, r.Depth_Score)

NotCGTG(r) == r.ALT \notin {<<"C", "G">>, <<"T", "G">>}

\* the table without the filter of line 293
NotLowPrecision_always(r) == TRUE

NotLowPrecision(r) == r.Confidence # "Low_Precision"

\* line 289: the row without its 'left' and 'right' columns
FinalRow(r) ==
    [Motifs |-> r.Motifs, Variant |-> r.Variant, POS |-> r.POS, REF |-> r.REF,
     ALT |-> r.ALT, Motif_sequence |-> r.Motif_sequence,
     Estimated_Depth_AlternateVariant |-> r.Estimated_Depth_AlternateVariant,
     Estimated_Depth_Variant_ActiveRegion |-> r.Estimated_Depth_Variant_ActiveRegion,
     Frame_Score |-> r.Frame_Score,
     Depth_Score |-> r.Depth_Score, Confidence |-> r.Confidence]

\* lines 278-295
filter_by_alt_values_and_finalize(t) ==
    LET gg == IF \E i \in 1..Len(t) : word_contains(t[i].ALT, <<"G", "G">>)
              THEN Filter(t, NotGG) \o Filter(t, GGAboveCut)
              ELSE t
    IN  Filter(Map(Filter(gg, NotCGTG), FinalRow), NotLowPrecision)

-----------------------------------------------------------------------------
(* process_kmer_results, lines 298-318, one action for each of its five steps *)

Raise(e) ==
    /\ pc' = "raised"
    /\ err' = e

\* Step 1.  Line 185 assigns the split of 'Sample' to three columns and
\* raises ValueError unless the split has exactly three columns (an empty
\* table splits into none).
SplitDepthAndCalculateFrameScore ==
    /\ pc = "step1"
    /\ IF SplitWidth(combined_df, "Sample", ":") # 3
       THEN Raise("ValueError") /\ UNCHANGED df
       ELSE /\ df' = split_depth_and_calculate_frame_score(combined_df)
            /\ pc' = "step2"
            /\ UNCHANGED err
    /\ UNCHANGED <<combined_df, mcaVars, runVars, envVars>>

\* Step 2.  Line 210 assigns the split of 'Frame_Score' to two columns and
\* raises ValueError unless the split has exactly two columns.
SplitFrameScore ==
    /\ pc = "step2"
    /\ IF SplitWidth(df, "Frame_Score", ".") # 2
       THEN Raise("ValueError") /\ UNCHANGED df
       ELSE /\ df' = split_frame_score(df)
            /\ pc' = "step3"
            /\ UNCHANGED err
    /\ UNCHANGED <<combined_df, mcaVars, runVars, envVars>>

\* Step 3
ExtractFrameshifts ==
    /\ pc = "step3"
    /\ df' = extract_frameshifts(df)
    /\ pc' = "step4"
    /\ UNCHANGED <<err, combined_df, mcaVars, runVars, envVars>>

\* Step 4.  On a table without rows DataFrame.apply returns an empty Series
\* (assign_confidence gives a label for the all-NaN probe row) and nothing is
\* raised.
CalculateDepthScoreAndAssignConfidence ==
    /\ pc = "step4"
    /\ LET e1 == AstypeIntError(df, "Estimated_Depth_AlternateVariant")
           e2 == AstypeIntError(df, "Estimated_Depth_Variant_ActiveRegion")
       IN  IF e1 # "none" THEN Raise(e1) /\ UNCHANGED df
           ELSE IF e2 # "none" THEN Raise(e2) /\ UNCHANGED df
           ELSE /\ df' = calculate_depth_score_and_assign_confidence(df)
                /\ pc' = "step5"
                /\ UNCHANGED err
    /\ UNCHANGED <<combined_df, mcaVars, runVars, envVars>>

\* Step 5, and the return of process_kmer_results
FilterByAltValuesAndFinalize ==
    /\ pc = "step5"
    /\ df' = filter_by_alt_values_and_finalize(df)
    /\ pc' = "done"
    /\ UNCHANGED <<err, combined_df, mcaVars, runVars, envVars>>

NextKmer ==
    \/ SplitDepthAndCalculateFrameScore
    \/ SplitFrameScore
    \/ ExtractFrameshifts
    \/ CalculateDepthScoreAndAssignConfidence
    \/ FilterByAltValuesAndFinalize

\* no call of motif_correction_and_annotation is in progress
McaIdle ==
    /\ mca_df = <<>>
    /\ kestrel_config = [position_threshold |-> 0, exclude_motifs_right |-> {},
                          alt_for_motif_right_gg |-> <<>>, motifs_for_alt_gg |-> {},
                          exclude_alts_combined |-> {}, exclude_motifs_combined |-> {}]
    /\ motif_left = <<>>
    /\ motif_right = <<>>
    /\ mca_result = <<>>
    /\ keys_read = {}
    /\ sort_memo = {}

\* a table object: its column names in order, and its rows
EmptyTable == [columns |-> <<>>, rows |-> <<>>]

\* neither preprocessing function has been called
PreIdle ==
    /\ vcf = EmptyTable
    /\ muc1_ref = <<>>
    /\ pre_df = <<>>

\* run_kestrel is not running
KestrelIdle ==
    /\ kmer_sizes = <<>>
    /\ kmer_index = 0
    /\ fastq_given = TRUE
    /\ vcf_is_file = FALSE
    /\ kestrel_log = <<>>

\* no run has been completed before this one
NoRun == [done |-> FALSE, pc |-> "none", err |-> "none", output |-> <<>>]

FirstRun ==
    /\ first_run = NoRun
    /\ same_build = TRUE

\* an allele of n times the base b
Allele(b, n) == [i \in 1..n |-> b]

\* the text 'delRun:altDepth:activeRegionDepth' of the genotyper's sample column
SampleText(d, a, r) == IntToStr(d) \o <<":">> \o IntToStr(a) \o <<":">> \o IntToStr(r)

\* a row of the combined insertion / deletion table (lines 97-101)
CandidateRow(motifs, variant, pos, ref, alt, sample) ==
    [Motifs |-> motifs, Variant |-> variant, POS |-> pos, REF |-> ref, ALT |-> alt,
     Sample |-> sample, Motif_sequence |-> None]

\* Frameshift classifier inputs: one candidate with every pair of REF and ALT
\* lengths up to MaxLen, under either tag
InitFrame ==
    /\ pc = "step1"
    /\ err = "none"
    /\ \E n \in 1..MaxLen, m \in 1..MaxLen, v \in {"Insertion", "Deletion"} :
           combined_df = <<CandidateRow(<<"X", "-", "A">>, v, <<"3", "0">>, Allele("C", n),
                                        Allele("G", m), SampleText(0, 150, 1000))>>
    /\ df = <<>>
    /\ arg_before = combined_df
    /\ McaIdle
    /\ PreIdle
    /\ FirstRun
    /\ KestrelIdle

SpecFrame == InitFrame /\ [][NextKmer]_vars

-----------------------------------------------------------------------------
(* Claims on the frameshift classifier *)

delta(r) == Len(r.ALT) - Len(r.REF)

\* the retained residue class in integers: insertions of 1, 4, 7, ... bases
\* and deletions of 2, 5, 8, ... bases
InsClass(r) == delta(r) > 0 /\ delta(r) % 3 = 1

DelClass(r) == delta(r) < 0 /\ (0 - delta(r)) % 3 = 2

RetainedClass(r) == InsClass(r) \/ DelClass(r)

\* extract_frameshifts has returned
Classified == pc \in {"step4", "step5", "done"}

\* C1: every row that survives the frameshift classifier has delta > 0 with
\* delta mod 3 = 1, or delta < 0 with |delta| mod 3 = 2
C1_FrameResidueSound ==
    Classified => \A i \in 1..Len(df) : RetainedClass(df[i])

\* a deletion of 5 bases (frame score -1.67) has survived the classifier
C1_Witness ==
    /\ pc = "step4"
    /\ \E i \in 1..Len(df) : delta(df[i]) = 0 - 5

\* the columns a candidate has before and after classification
Candidate(r) == <<r.Motifs, r.Variant, r.POS, r.REF, r.ALT>>

\* C2: the text-based classifier keeps exactly the rows the integer rule
\* keeps (insertion class first, then deletion class), whatever their tag,
\* and raises only when the integer rule keeps no row
C2_ClassifierEquivalence ==
    /\ pc = "step4" =>
          Map(df, Candidate)
              = Map(Filter(combined_df, InsClass) \o Filter(combined_df, DelClass), Candidate)
    /\ pc = "raised" => \A i \in 1..Len(combined_df) : ~ RetainedClass(combined_df[i])

\* an insertion of 31 bases (frame score 10.33) tagged Deletion is kept
C2_Witness ==
    /\ pc = "step4"
    /\ \E i \in 1..Len(df) : delta(df[i]) = 31 /\ df[i].Variant = "Deletion"

-----------------------------------------------------------------------------
(* Confidence scorer inputs and claims *)

\* alternate depths: every value up to MaxAltDepth, and 469, the smallest
\* depth for which alt_depth / active_region_depth can equal 0.00469
AltDepths == 0..MaxAltDepth \cup {469}

\* active-region depths for alternate depth a: 0 and 1, both sides of the
\* limit 200, both sides of the depths at which a / r crosses 0.00469 and
\* 0.00515, and a coarse grid
RegionDepths(a) ==
    {0, 1, 199, 200, 201, 202}
    \cup {x \in {(100000 * a) \div 469 + k : k \in {0 - 1, 0, 1}} : x >= 0}
    \cup {x \in {(100000 * a) \div 515 + k : k \in {0 - 1, 0, 1}} : x >= 0}
    \cup {k * RegionStep : k \in 1..MaxRegionSteps}

\* one surviving frameshift candidate with every pair of depths
InitConf ==
    /\ pc = "step1"
    /\ err = "none"
    /\ \E a \in AltDepths, v \in {"Insertion", "Deletion"},
          alt \in {<<"G", "G">>, <<"C", "A">>, <<"C", "G">>} :
          \E r \in RegionDepths(a) :
             combined_df = <<CandidateRow(<<"X", "-", "A">>, v, <<"3", "0">>, <<"G">>,
                                          alt, SampleText(0, a, r))>>
    /\ df = <<>>
    /\ arg_before = combined_df
    /\ McaIdle
    /\ PreIdle
    /\ FirstRun
    /\ KestrelIdle

SpecConf == InitConf /\ [][NextKmer]_vars

\* the decision table of the specification, on the two integers alone:
\* depth_score <= n / 100000 is 100000 * a <= n * r for r > 0
DecisionTable(a, r) ==
    << [when |-> 100000 * a <= 469 * r \/ r <= 200, label |-> "Low_Precision"],
       [when |-> 21 <= a /\ a <= 100 /\ 469 * r <= 100000 * a /\ 100000 * a <= 515 * r,
        label |-> "Low_Precision"],
       [when |-> a > 100, label |-> "High_Precision"],
       [when |-> a <= 20, label |-> "Low_Precision"],
       [when |-> 21 <= a /\ a < 100 /\ 100000 * a >= 515 * r, label |-> "High_Precision"],
       [when |-> a >= 100 /\ 100000 * a >= 515 * r, label |-> "High_Precision*"],
       [when |-> TRUE, label |-> "Low_Precision"] >>

\* the index of the first rule of the table that matches
FirstRule(a, r) ==
    LET t == DecisionTable(a, r)
    IN  CHOOSE i \in 1..Len(t) : t[i].when /\ \A j \in 1..(i - 1) : ~ t[j].when

TableLabel(a, r) == DecisionTable(a, r)[FirstRule(a, r)].label

\* calculate_depth_score_and_assign_confidence has returned
Scored == pc = "step5"

\* C3: for alt_depth >= 0 and active_region_depth > 0 the label is the one of
\* the first matching rule of the decision table, whatever the other columns
C3_ConfidenceDecisionTable ==
    Scored =>
        \A i \in 1..Len(df) :
            df[i].Estimated_Depth_Variant_ActiveRegion > 0 =>
                df[i].Confidence = TableLabel(df[i].Estimated_Depth_AlternateVariant,
                                              df[i].Estimated_Depth_Variant_ActiveRegion)

\* rule 6 has produced a label: alt_depth = 100 over an active region of 202
C3_Witness ==
    /\ Scored
    /\ \E i \in 1..Len(df) :
          /\ df[i].Estimated_Depth_AlternateVariant = 100
          /\ df[i].Estimated_Depth_Variant_ActiveRegion = 202
          /\ df[i].Confidence = "High_Precision*"

\* C10: a surviving row with active_region_depth = 0 is labelled
\* Low_Precision, and scoring a table that holds such a row raises nothing
C10_ZeroRegionDepthGuarded ==
    /\ Scored =>
          \A i \in 1..Len(df) :
              df[i].Estimated_Depth_Variant_ActiveRegion = 0 =>
                  df[i].Confidence = "Low_Precision"
    /\ pc = "raised" =>
          ~ \E i \in 1..Len(df) : df[i].Estimated_Depth_Variant_ActiveRegion = <<"0">>

\* 101 / 0 = inf has been scored
C10_Witness ==
    /\ Scored
    /\ \E i \in 1..Len(df) :
          /\ df[i].Estimated_Depth_Variant_ActiveRegion = 0
          /\ df[i].Estimated_Depth_AlternateVariant = 101
          /\ IsInf(df[i].Depth_Score)

-----------------------------------------------------------------------------
(* Motif resolver: motif_processing.py, motif_correction_and_annotation *)

\* default of mf.get('position_threshold', 60)
PositionThresholdDefault == 60

\* the argument merged_motifs (load_additional_motifs): the annotation
\* catalog, one record for each motif id
merged_motifs ==
    {[Motif |-> <<"X">>, Motif_sequence |-> <<"G", "C", "C">>]}

\* the Motif_sequence a left merge on 'Motif' attaches: None without a match
MergedSequence(m) ==
    IF \E e \in merged_motifs : e.Motif = m
    THEN (CHOOSE e \in merged_motifs : e.Motif = m).Motif_sequence
    ELSE None

\* line 196: df['Motifs'].str.count('-').max()
MaxDashCount(t) == Max({str_count(t[i].Motifs, "-") : i \in 1..Len(t)})

\* line 194, in place on the caller's table
WithMotifFasta(r) ==
    [Motifs |-> r.Motifs, Variant |-> r.Variant, POS |-> r.POS, REF |-> r.REF,
     ALT |-> r.ALT, Motif_sequence |-> r.Motif_sequence,
     Estimated_Depth_AlternateVariant |-> r.Estimated_Depth_AlternateVariant,
     Estimated_Depth_Variant_ActiveRegion |-> r.Estimated_Depth_Variant_ActiveRegion,
     Depth_Score |-> r.Depth_Score, Confidence |-> r.Confidence,
     Motif_fasta |-> r.Motifs]

\* line 207: astype(int) of POS.  The column holds text in a table that comes
\* from process_kmer_results and integers in a table that has been through
\* this line before (such a table has the column Motif_left).
PosAsInt(r) == IF "Motif_left" \in DOMAIN r THEN r.POS ELSE StrToInt(r.POS)

\* the 'Motifs' column itself overwritten with the left part of the id
SplitMotifsRow_motifs_overwritten(r) ==
    [Motifs |-> SplitPart(r.Motifs, "-", 1), Variant |-> r.Variant, POS |-> PosAsInt(r),
     REF |-> r.REF, ALT |-> r.ALT, Motif_sequence |-> r.Motif_sequence,
     Estimated_Depth_AlternateVariant |-> r.Estimated_Depth_AlternateVariant,
     Estimated_Depth_Variant_ActiveRegion |-> r.Estimated_Depth_Variant_ActiveRegion,
     Depth_Score |-> r.Depth_Score, Confidence |-> r.Confidence,
     Motif_fasta |-> r.Motifs,
     Motif_left |-> SplitPart(r.Motifs, "-", 1),
     Motif_right |-> SplitPart(r.Motifs, "-", 2)]

\* lines 194-207, in place on the caller's table: a row without '-' gets
\* its whole id as Motif_left and a missing Motif_right
SplitMotifsRow(r) ==
    [Motifs |-> r.Motifs, Variant |-> r.Variant, POS |-> PosAsInt(r), REF |-> r.REF,
     ALT |-> r.ALT, Motif_sequence |-> r.Motif_sequence,
     Estimated_Depth_AlternateVariant |-> r.Estimated_Depth_AlternateVariant,
     Estimated_Depth_Variant_ActiveRegion |-> r.Estimated_Depth_Variant_ActiveRegion,
     Depth_Score |-> r.Depth_Score, Confidence |-> r.Confidence,
     Motif_fasta |-> r.Motifs,
     Motif_left |-> SplitPart(r.Motifs, "-", 1),
     Motif_right |-> SplitPart(r.Motifs, "-", 2)]

\* lines 220-240 and 260-280: the row with motif id m as its 'Motif', the
\* catalog's Motif_sequence in place of its own, and the columns of keep_cols
AnnotatedRow(r, m) ==
    [Motif |-> m, Motif_fasta |-> r.Motif_fasta, Variant |-> r.Variant,
     POS |-> r.POS, REF |-> r.REF, ALT |-> r.ALT,
     Motif_sequence |-> MergedSequence(m),
     Estimated_Depth_AlternateVariant |-> r.Estimated_Depth_AlternateVariant,
     Estimated_Depth_Variant_ActiveRegion |-> r.Estimated_Depth_Variant_ActiveRegion,
     Depth_Score |-> r.Depth_Score, Confidence |-> r.Confidence]

\* the left half annotated with the left part of its id, as the right half is
LeftAnnotated_with_left_part(r) == AnnotatedRow(r, r.Motif_left)

\* line 220: a left-half row is annotated with the right part of its id
LeftAnnotated(r) == AnnotatedRow(r, r.Motif_right)

\* line 260: a right-half row is annotated with the left part of its id
RightAnnotated(r) == AnnotatedRow(r, r.Motif_left)

\* x < y on finite floats
FLess(x, y) == x.num * y.den < y.num * x.den

\* the second key ascending: among equal Depth_Score the lowest POS first
LeftBefore_pos_ascending(t, i, j) ==
    \/ FLess(t[j].Depth_Score, t[i].Depth_Score)
    \/ /\ ~ FLess(t[i].Depth_Score, t[j].Depth_Score)
       /\ \/ t[i].POS < t[j].POS
          \/ t[i].POS = t[j].POS /\ i < j

\* lines 244-246: sort_values(["Depth_Score", "POS"], ascending=[False, False])
\* is a stable sort on two keys: row i comes before row j
LeftBefore(t, i, j) ==
    \/ FLess(t[j].Depth_Score, t[i].Depth_Score)
    \/ /\ ~ FLess(t[i].Depth_Score, t[j].Depth_Score)
       /\ \/ t[i].POS > t[j].POS
          \/ t[i].POS = t[j].POS /\ i < j

SortLeft(t) ==
    LET F[k \in 0..Len(t)] ==
            IF k = 0 THEN <<>>
            ELSE Append(F[k - 1],
                        t[CHOOSE i \in 1..Len(t) :
                              Cardinality({j \in 1..Len(t) : LeftBefore(t, j, i)}) = k - 1])
    IN  F[Len(t)]

\* duplicates dropped on the pair (REF, ALT) where the code drops them on ALT
DropDuplicateALT_on_ref_alt(t) ==
    Pick(t, {i \in 1..Len(t) :
                \A j \in 1..(i - 1) : <<t[j].REF, t[j].ALT>> # <<t[i].REF, t[i].ALT>>})

\* lines 249, 289, 296: drop_duplicates('ALT', keep='first')
DropDuplicateALT(t) ==
    Pick(t, {i \in 1..Len(t) : \A j \in 1..(i - 1) : t[j].ALT # t[i].ALT})

\* line 303: drop_duplicates(subset=['REF', 'ALT'])
DropDuplicateRefAlt(t) ==
    Pick(t, {i \in 1..Len(t) :
                \A j \in 1..(i - 1) : <<t[j].REF, t[j].ALT>> # <<t[i].REF, t[i].ALT>>})

\* the left half sorted but with every row kept
LeftHalf_without_dedup(t) == SortLeft(Map(t, LeftAnnotated))

\* lines 217-249: the left half after merge, sort and dedup
LeftHalf(t) ==
    DropDuplicateALT(SortLeft(Map(t, LeftAnnotated)))

\* lines 288, 295: sort_values('Depth_Score', ascending=False) sorts one key
\* with numpy's quicksort, which is not stable: rows of equal Depth_Score
\* come out in an order the numpy build decides.  Every descending order.
DescendingOrders(t) ==
    {Pick([k \in 1..Len(t) |-> t[p[k]]], 1..Len(t)) :
        p \in {q \in [1..Len(t) -> 1..Len(t)] :
                  /\ \A a, b \in 1..Len(t) : q[a] = q[b] => a = b
                  /\ \A k \in 1..(Len(t) - 1) :
                        ~ FLess(t[q[k]].Depth_Score, t[q[k + 1]].Depth_Score)}}

\* the restriction of line 292 without the test of line 291
AllowListed_without_any(t, cfg) ==
    Pick(t, {i \in 1..Len(t) : t[i].Motif \in cfg.motifs_for_alt_gg})

\* lines 291-292: the allow-list applies when some row's motif is in it
AllowListed(t, cfg) ==
    IF \E i \in 1..Len(t) : t[i].Motif \in cfg.motifs_for_alt_gg
    THEN Pick(t, {i \in 1..Len(t) : t[i].Motif \in cfg.motifs_for_alt_gg})
    ELSE t

\* the sentinel rows without line 285, the exclusion by motif
SentinelRows_without_exclusion(t, cfg) ==
    Pick(t, {i \in 1..Len(t) : t[i].ALT = cfg.alt_for_motif_right_gg})

\* lines 285-286: without the motifs of exclude_motifs_right, then the rows
\* whose ALT is the sentinel
SentinelRows(t, cfg) ==
    Pick(t, {i \in 1..Len(t) :
                /\ t[i].Motif \notin cfg.exclude_motifs_right
                /\ t[i].ALT = cfg.alt_for_motif_right_gg})

\* line 284: some ALT of the right half contains the sentinel as a word
HasSentinel(m, cfg) ==
    \E i \in 1..Len(m) : word_contains(m[i].ALT, cfg.alt_for_motif_right_gg)

\* lines 284-295: the table handed to sort_values, m being the annotated
\* right half
RightSortInput(m, cfg) == IF HasSentinel(m, cfg) THEN SentinelRows(m, cfg) ELSE m

\* lines 289-303: the right half, o being what sort_values returned
RightAfterSort(m, o, cfg) ==
    IF HasSentinel(m, cfg)
    THEN DropDuplicateRefAlt(AllowListed(DropDuplicateALT(o), cfg))
    ELSE DropDuplicateRefAlt(DropDuplicateALT(o))

\* lines 257-303: the tables the right half can become
RightHalves(t, cfg) ==
    UNION {{RightAfterSort(m, o, cfg) : o \in DescendingOrders(RightSortInput(m, cfg))}
           : m \in {Map(t, RightAnnotated)}}

\* The sort of one installation is a function: it returns for a table what
\* it returned for that table before; for a table not sorted before, any
\* descending order.
SortedRight(t) ==
    IF \E e \in sort_memo : e.from = t
    THEN {e.to : e \in {x \in sort_memo : x.from = t}}
    ELSE DescendingOrders(t)

\* the combined exclusion without line 311, the exclusion by motif
ExcludeCombined_alts_only(t, cfg) ==
    Pick(t, {i \in 1..Len(t) : t[i].ALT \notin cfg.exclude_alts_combined})

\* lines 309-311: right half, then left half, without the excluded rows
ExcludeCombined(t, cfg) ==
    Pick(t, {i \in 1..Len(t) :
                /\ t[i].ALT \notin cfg.exclude_alts_combined
                /\ t[i].Motif \notin cfg.exclude_motifs_combined})

\* re-basing with > in place of >=
RebasedRow_strictly_above(r, position_threshold) ==
    [Motif |-> r.Motif, Motif_fasta |-> r.Motif_fasta, Variant |-> r.Variant,
     POS |-> IF r.POS > position_threshold THEN r.POS - position_threshold ELSE r.POS,
     REF |-> r.REF, ALT |-> r.ALT, Motif_sequence |-> r.Motif_sequence,
     Estimated_Depth_AlternateVariant |-> r.Estimated_Depth_AlternateVariant,
     Estimated_Depth_Variant_ActiveRegion |-> r.Estimated_Depth_Variant_ActiveRegion,
     Depth_Score |-> r.Depth_Score, Confidence |-> r.Confidence,
     POS_fasta |-> r.POS]

\* POS_fasta copied after the re-basing instead of before it
RebasedRow_fasta_after(r, position_threshold) ==
    LET q == IF r.POS >= position_threshold THEN r.POS - position_threshold ELSE r.POS
    IN  [Motif |-> r.Motif, Motif_fasta |-> r.Motif_fasta, Variant |-> r.Variant,
         POS |-> q, REF |-> r.REF, ALT |-> r.ALT, Motif_sequence |-> r.Motif_sequence,
         Estimated_Depth_AlternateVariant |-> r.Estimated_Depth_AlternateVariant,
         Estimated_Depth_Variant_ActiveRegion |-> r.Estimated_Depth_Variant_ActiveRegion,
         Depth_Score |-> r.Depth_Score, Confidence |-> r.Confidence,
         POS_fasta |-> q]

\* lines 319-325 for one row
RebasedRow(r, position_threshold) ==
    [Motif |-> r.Motif, Motif_fasta |-> r.Motif_fasta, Variant |-> r.Variant,
     POS |-> IF r.POS >= position_threshold THEN r.POS - position_threshold ELSE r.POS,
     REF |-> r.REF, ALT |-> r.ALT, Motif_sequence |-> r.Motif_sequence,
     Estimated_Depth_AlternateVariant |-> r.Estimated_Depth_AlternateVariant,
     Estimated_Depth_Variant_ActiveRegion |-> r.Estimated_Depth_Variant_ActiveRegion,
     Depth_Score |-> r.Depth_Score, Confidence |-> r.Confidence,
     POS_fasta |-> r.POS]

\* line 210: df[df['POS'] < position_threshold]
BelowThreshold(t, position_threshold) ==
    Pick(t, {i \in 1..Len(t) : t[i].POS < position_threshold})

\* line 211: df[df['POS'] >= position_threshold]
FromThreshold(t, position_threshold) ==
    Pick(t, {i \in 1..Len(t) : t[i].POS >= position_threshold})

\* lines 308-332.  A half without rows is still the selection of line 210 or
\* 211 and brings only its column names into the concatenation (all missing
\* in every row); those columns are left out of the rows here.
CombineAndRebase(right, left, cfg) ==
    LET Rebased(r) == RebasedRow(r, cfg.position_threshold)
    IN  Map(ExcludeCombined(right \o left, cfg), Rebased)

\* lines 182-188: the keys read from kestrel_config
ConfigKeys ==
    {"motif_filtering", "position_threshold", "exclude_motifs_right",
     "alt_for_motif_right_gg", "motifs_for_alt_gg", "exclude_alts_combined",
     "exclude_motifs_combined"}

\* the configuration read before the test for an empty table
KeysReadBy_before_empty_test(t) == ConfigKeys

\* lines 178-188: the keys a call with table t reads; the return of line 180
\* comes before the first read
KeysReadBy(t) == IF Len(t) = 0 THEN {} ELSE ConfigKeys

\* The whole call.  An empty table is returned as it is (line 180); a table
\* whose largest dash count is not 1 gets its Motif_fasta column and an empty
\* DataFrame is returned (lines 194-200), no exception is raised; otherwise
\* the caller's table gets the split columns and an integer POS in place and
\* the two halves are resolved.  A half without rows is left as the empty
\* selection of line 210 or 211.
MotifCorrectionAndAnnotation ==
    /\ pc = "call"
    /\ pc' = "returned"
    /\ keys_read' = keys_read \cup KeysReadBy(mca_df)
    /\ IF Len(mca_df) = 0
       THEN /\ mca_result' = mca_df
            /\ UNCHANGED <<mca_df, motif_left, motif_right, sort_memo>>
       ELSE IF MaxDashCount(mca_df) # 1
       THEN /\ mca_df' = Map(mca_df, WithMotifFasta)
            /\ mca_result' = <<>>
            /\ UNCHANGED <<motif_left, motif_right, sort_memo>>
       ELSE \E d \in {Map(mca_df, SplitMotifsRow)} :
            \E m \in {Map(FromThreshold(d, kestrel_config.position_threshold), RightAnnotated)} :
            \E o \in SortedRight(RightSortInput(m, kestrel_config)) :
                /\ mca_df' = d
                /\ motif_left' = LeftHalf(BelowThreshold(d, kestrel_config.position_threshold))
                /\ motif_right' = RightAfterSort(m, o, kestrel_config)
                /\ sort_memo' = IF Len(m) = 0 THEN sort_memo
                                ELSE sort_memo \cup {[from |-> RightSortInput(m, kestrel_config),
                                                      to |-> o]}
                /\ mca_result' = CombineAndRebase(motif_right', motif_left', kestrel_config)
    /\ UNCHANGED <<err, kestrel_config, kmerVars, runVars, envVars>>

NextMca == MotifCorrectionAndAnnotation

\* process_kmer_results is not running
KmerIdle ==
    /\ combined_df = <<>>
    /\ df = <<>>

\* the reference allele at a position of the compound repeat unit
RefAt(pos) == IF pos = <<"2", "0">> THEN <<"G">> ELSE <<"C">>

\* a scored candidate, as process_kmer_results returns it
ScoredCandidate(motifs, pos, alt, a) ==
    [Motifs |-> motifs, Variant |-> "Insertion", POS |-> pos, REF |-> RefAt(pos),
     ALT |-> alt, Motif_sequence |-> None,
     Estimated_Depth_AlternateVariant |-> a,
     Estimated_Depth_Variant_ActiveRegion |-> 1000,
     Depth_Score |-> Quotient(a, 1000), Confidence |-> "High_Precision"]

\* an ALT field of two alleles, 'GG,CA', as a VCF record with two alternate
\* alleles has it: line 284 finds the word 'GG' in it, line 286 does not
\* find it equal to 'GG'
MultiAllelicAlt == <<"G", "G", ",", "C", "A">>

\* well-formed candidates: two compound ids, positions on both sides of the
\* threshold, two alleles, two depths; and one candidate for each malformed
\* id (no dash, two dashes) and one with an ALT of two alleles
ResolverRows ==
    {ScoredCandidate(m, p, alt, a) :
        m \in {<<"X", "-", "A">>, <<"A", "-", "X">>},
        p \in {<<"2", "0">>, <<"3", "0">>, <<"6", "0">>},
        alt \in {<<"G", "G">>, <<"G", "C">>},
        a \in {150, 300}}
    \cup {ScoredCandidate(m, <<"3", "0">>, <<"G", "C">>, 150) :
             m \in {<<"X">>, <<"X", "-", "A", "-", "B">>}}
    \cup {ScoredCandidate(<<"A", "-", "X">>, <<"6", "0">>, MultiAllelicAlt, 150)}

ResolverTables == UNION {[1..n -> ResolverRows] : n \in 0..MaxRows}

\* the configurations: the default threshold and half of it, each list empty
\* or not (the two combined lists together)
ResolverConfigs ==
    {[position_threshold |-> thr, exclude_motifs_right |-> xr,
      alt_for_motif_right_gg |-> <<"G", "G">>, motifs_for_alt_gg |-> allow,
      exclude_alts_combined |-> xc[1], exclude_motifs_combined |-> xc[2]] :
        thr \in {PositionThresholdDefault, PositionThresholdDefault \div 2},
        xr \in {{}, {<<"X">>}},
        allow \in {{}, {<<"A">>}},
        xc \in {<<{}, {}>>, <<{<<"G", "C">>}, {<<"A">>}>>}}

InitMca ==
    /\ pc = "call"
    /\ err = "none"
    /\ mca_df \in ResolverTables
    /\ kestrel_config \in ResolverConfigs
    /\ motif_left = <<>>
    /\ motif_right = <<>>
    /\ mca_result = <<>>
    /\ keys_read = {}
    /\ sort_memo = {}
    /\ arg_before = mca_df
    /\ KmerIdle
    /\ PreIdle
    /\ FirstRun
    /\ KestrelIdle

SpecMca == InitMca /\ [][NextMca]_vars

-----------------------------------------------------------------------------
(* Claims on the motif resolver *)

\* motif_correction_and_annotation has returned
Returned == pc = "returned"

\* no two rows of t have the same Key
Unique(t, Key(_)) == \A i, j \in 1..Len(t) : Key(t[i]) = Key(t[j]) => i = j

AltOf(r) == r.ALT

RefAltOf(r) == <<r.REF, r.ALT>>

position_threshold == kestrel_config.position_threshold

\* C4: no row of the returned table has an ALT in exclude_alts_combined or an
\* effective Motif in exclude_motifs_combined
C4_ExclusionComplete ==
    Returned =>
        \A i \in 1..Len(mca_result) :
            /\ mca_result[i].ALT \notin kestrel_config.exclude_alts_combined
            /\ mca_result[i].Motif \notin kestrel_config.exclude_motifs_combined

\* a half kept a row excluded by its motif alone, and the returned table
\* still has a row
C4_Witness ==
    /\ Returned
    /\ Len(mca_result) > 0
    /\ \E i \in 1..Len(motif_right \o motif_left) :
          LET r == (motif_right \o motif_left)[i]
          IN  /\ r.Motif \in kestrel_config.exclude_motifs_combined
              /\ r.ALT \notin kestrel_config.exclude_alts_combined

\* C5: after the dedup steps no two rows of the left half share an ALT, and
\* no two rows of the right half share an ALT or a (REF, ALT) pair
C5_DedupUniqueWithinHalf ==
    Returned =>
        /\ Unique(motif_left, AltOf)
        /\ Unique(motif_right, AltOf)
        /\ Unique(motif_right, RefAltOf)

\* two left-half candidates with one ALT and different REF went in, one came out
C5_Witness ==
    /\ Returned
    /\ Len(motif_left) = 1
    /\ \E i, j \in 1..Len(mca_df) :
          /\ i # j
          /\ mca_df[i].POS < position_threshold
          /\ mca_df[j].POS < position_threshold
          /\ mca_df[i].ALT = mca_df[j].ALT
          /\ mca_df[i].REF # mca_df[j].REF

\* C6 as stated: no two rows of the returned table carry the same ALT
C6_OneRowPerAllele == Returned => Unique(mca_result, AltOf)

InLeftHalf(r) == r.POS_fasta < position_threshold

\* C6 as amended: two rows of the returned table with the same ALT come from
\* different halves (one called below position_threshold, one at or above it)
C6_OneRowPerAlleleAndHalf ==
    Returned =>
        \A i, j \in 1..Len(mca_result) :
            i # j /\ mca_result[i].ALT = mca_result[j].ALT =>
                InLeftHalf(mca_result[i]) # InLeftHalf(mca_result[j])

\* the same ALT was called on both sides and the returned table has both rows
C6_Witness ==
    /\ Returned
    /\ \E i, j \in 1..Len(mca_result) :
          /\ i # j
          /\ mca_result[i].ALT = mca_result[j].ALT
          /\ InLeftHalf(mca_result[j])
          /\ ~ InLeftHalf(mca_result[i])

\* a compound motif id with no dash or with more than one
Malformed(r) == str_count(r.Motifs, "-") # 1

\* C7: a malformed compound motif id in the batch makes the call raise
\* MalformedMotifIdError and return no row
C7_MalformedIdAborts ==
    Returned /\ (\E i \in 1..Len(mca_df) : Malformed(mca_df[i])) =>
        /\ err = "MalformedMotifIdError"
        /\ mca_result = <<>>

\* C8: every returned row has POS_fasta = the position of a candidate it
\* comes from, and POS = that position minus position_threshold when the
\* position is >= position_threshold, the position itself when it is below
C8_PositionRebased ==
    Returned =>
        \A k \in 1..Len(mca_result) :
            \E i \in 1..Len(mca_df) :
                /\ mca_df[i].Motifs = mca_result[k].Motif_fasta
                /\ mca_df[i].REF = mca_result[k].REF
                /\ mca_df[i].ALT = mca_result[k].ALT
                /\ mca_df[i].Depth_Score = mca_result[k].Depth_Score
                /\ mca_result[k].POS_fasta = mca_df[i].POS
                /\ mca_result[k].POS =
                      IF mca_df[i].POS >= position_threshold
                      THEN mca_df[i].POS - position_threshold
                      ELSE mca_df[i].POS

\* a candidate at position_threshold came out at POS 0, beside one from below
C8_Witness ==
    /\ Returned
    /\ \E i, j \in 1..Len(mca_result) :
          /\ mca_result[i].POS_fasta = position_threshold
          /\ mca_result[i].POS = 0
          /\ mca_result[j].POS_fasta < position_threshold
          /\ mca_result[j].POS = mca_result[j].POS_fasta

\* re-basing a returned row once more leaves its POS as it is
RebaseIsNoOp(r) ==
    /\ r.POS < position_threshold
    /\ RebasedRow(r, position_threshold).POS = r.POS

\* C9 as stated: every re-based POS is below position_threshold, so a second
\* re-basing changes no POS
C9_RebaseIdempotent ==
    Returned => \A k \in 1..Len(mca_result) : RebaseIsNoOp(mca_result[k])

\* C9 as amended: for a candidate called below 2 * position_threshold the
\* re-based POS is below position_threshold and a second re-basing changes
\* nothing; a candidate called at or above 2 * position_threshold keeps a POS
\* >= position_threshold
C9_RebaseIdempotentWithinUnit ==
    Returned =>
        \A k \in 1..Len(mca_result) :
            IF mca_result[k].POS_fasta < 2 * position_threshold
            THEN RebaseIsNoOp(mca_result[k])
            ELSE mca_result[k].POS >= position_threshold

\* a right-half candidate called below 2 * position_threshold was re-based
C9_Witness ==
    /\ Returned
    /\ \E k \in 1..Len(mca_result) :
          /\ mca_result[k].POS_fasta >= position_threshold
          /\ mca_result[k].POS_fasta < 2 * position_threshold
          /\ mca_result[k].POS = mca_result[k].POS_fasta - position_threshold

-----------------------------------------------------------------------------
(* Batches for process_kmer_results: tables of several candidates, some with *)
(* a sample field that is no depth triple                                    *)

\* REF and ALT of an insertion of 1 base (kept), of 3 bases (in frame), of 2
\* bases (opposite residue) and of a deletion of 2 bases (kept)
BatchAlleles ==
    {<<Allele("C", 1), Allele("G", 2)>>, <<Allele("C", 1), Allele("G", 4)>>,
     <<Allele("C", 1), Allele("G", 3)>>, <<Allele("C", 3), Allele("G", 1)>>}

\* sample fields: a depth triple, two subfields, four subfields, and a
\* triple whose second subfield is no integer
BatchSamples ==
    {SampleText(0, 150, 1000),
     <<"0", ":", "1", "5", "0">>,
     <<"0", ":", "1", "5", "0", ":", "1", "0", "0", "0", ":", "7">>,
     <<"0", ":", "x", ":", "1", "0", "0", "0">>}

BatchRows ==
    {CandidateRow(<<"X", "-", "A">>, "Insertion", <<"3", "0">>, a[1], a[2], smp) :
        a \in BatchAlleles, smp \in BatchSamples}

BatchTables == UNION {[1..n -> BatchRows] : n \in 0..MaxBatch}

InitBatch ==
    /\ pc = "step1"
    /\ err = "none"
    /\ combined_df \in BatchTables
    /\ df = <<>>
    /\ arg_before = combined_df
    /\ McaIdle
    /\ PreIdle
    /\ FirstRun
    /\ KestrelIdle

SpecBatch == InitBatch /\ [][NextKmer]_vars

\* the sample field splits on ':' into exactly three subfields, the second
\* and third of them integers
Parsable(r) ==
    LET parts == str_split(r.Sample, ":")
    IN  Len(parts) = 3 /\ IsIntText(parts[2]) /\ IsIntText(parts[3])

ParsableRetained(r) == Parsable(r) /\ RetainedClass(r)

\* C11: when some rows of the batch have a sample field that is no depth
\* triple and another row is a parsable frameshift, the batch is not aborted
\* and exactly the parsable frameshift rows are scored
C11_UnparsableTripleRecoverable ==
    (/\ \E i \in 1..Len(combined_df) : ~ Parsable(combined_df[i])
     /\ \E j \in 1..Len(combined_df) : ParsableRetained(combined_df[j]))
    => /\ pc # "raised"
       /\ pc = "step5" =>
             Map(df, Candidate)
                 = Map(Filter(Filter(combined_df, ParsableRetained), InsClass)
                         \o Filter(Filter(combined_df, ParsableRetained), DelClass),
                       Candidate)

\* C12: when the candidate table is empty, or no row of it is a frameshift
\* of the retained residue class, no step raises and the final table is empty
C12_ZeroSurvivorsNotError ==
    (/\ \A i \in 1..Len(combined_df) : Parsable(combined_df[i])
     /\ \A i \in 1..Len(combined_df) : ~ RetainedClass(combined_df[i]))
    => /\ pc # "raised"
       /\ pc = "done" => df = <<>>

\* C13: a call with a table of zero rows returns a table of zero rows, raises
\* nothing and reads no key of the configuration, whatever the configuration
C13_EmptyInputShortCircuit ==
    Returned /\ Len(mca_df) = 0 =>
        /\ mca_result = <<>>
        /\ err = "none"
        /\ keys_read = {}

\* an empty table has come back under a configuration with every list set
C13_Witness ==
    /\ Returned
    /\ Len(mca_df) = 0
    /\ mca_result = <<>>
    /\ kestrel_config.exclude_motifs_right # {}
    /\ kestrel_config.motifs_for_alt_gg # {}
    /\ kestrel_config.exclude_alts_combined # {}

-----------------------------------------------------------------------------
(* Two runs of the core on the same inputs *)

\* motif_correction_and_annotation is called a second time with the same
\* table object, catalog and configuration, on the installation of the first
\* run or on another one (whose sort may order ties differently)
McaAgain ==
    /\ pc = "returned"
    /\ ~ first_run.done
    /\ first_run' = [done |-> TRUE, pc |-> pc, err |-> err, output |-> mca_result]
    /\ pc' = "call"
    /\ motif_left' = <<>>
    /\ motif_right' = <<>>
    /\ mca_result' = <<>>
    /\ keys_read' = {}
    /\ \E b \in BOOLEAN :
          /\ same_build' = b
          /\ sort_memo' = IF b THEN sort_memo ELSE {}
    /\ UNCHANGED <<err, mca_df, kestrel_config, kmerVars, envVars>>

\* process_kmer_results is called a second time with the same table object
KmerAgain ==
    /\ pc \in {"done", "raised"}
    /\ ~ first_run.done
    /\ first_run' = [done |-> TRUE, pc |-> pc, err |-> err,
                     output |-> IF pc = "done" THEN df ELSE <<>>]
    /\ pc' = "step1"
    /\ err' = "none"
    /\ df' = <<>>
    /\ same_build' \in BOOLEAN
    /\ UNCHANGED <<combined_df, mcaVars, envVars>>

NextTwice ==
    \/ NextKmer
    \/ NextMca
    \/ McaAgain
    \/ KmerAgain

\* candidates on both sides of either threshold
TwiceRows == {r \in ResolverRows : r.POS \in {<<"3", "0">>, <<"6", "0">>}}

TwiceTables == UNION {[1..n -> TwiceRows] : n \in 0..MaxTwiceRows}

InitTwiceMca ==
    /\ pc = "call"
    /\ err = "none"
    /\ mca_df \in TwiceTables
    /\ kestrel_config \in ResolverConfigs
    /\ motif_left = <<>>
    /\ motif_right = <<>>
    /\ mca_result = <<>>
    /\ keys_read = {}
    /\ sort_memo = {}
    /\ arg_before = mca_df
    /\ KmerIdle
    /\ PreIdle
    /\ FirstRun
    /\ KestrelIdle

InitTwice == InitBatch \/ InitTwiceMca

SpecTwice == InitTwice /\ [][NextTwice]_vars

\* the running function has returned or raised
Finished == pc \in {"returned", "done", "raised"}

\* what the caller gets from the finished run
Outcome ==
    [done |-> TRUE, pc |-> pc, err |-> err,
     output |-> IF pc = "returned" THEN mca_result ELSE IF pc = "done" THEN df ELSE <<>>]

-----------------------------------------------------------------------------
(* Variant record normalizer: preprocessing_insertion and                    *)
(* preprocessing_deletion (kestrel_genotyping.py 131-173, the same code in   *)
(* motif_processing.py 60-111).  The table passed in is an object with its   *)
(* column names in order and its rows, each row a function of the names.     *)

\* the header of a filtered VCF file; the last column is named by the sample
RawColumns ==
    <<"#CHROM", "POS", "ID", "REF", "ALT", "QUAL", "FILTER", "INFO", "FORMAT", "S1">>

ColumnSet(cols) == {cols[i] : i \in 1..Len(cols)}

\* one record of a filtered VCF file (read_vcf_without_comments, lines 78-87)
RawRow(chrom, pos, ref, alt, sample) ==
    [c \in ColumnSet(RawColumns) |->
        CASE c = "#CHROM" -> chrom
          [] c = "POS" -> pos
          [] c = "REF" -> ref
          [] c = "ALT" -> alt
          [] c = "S1" -> sample
          [] OTHER -> <<".">>]

\* df.rename(columns={old: new}, inplace=True); a name not there is ignored
RenameColumn(t, old, new) ==
    LET NewName(c) == IF c = old THEN new ELSE c
        NewRow(r) == [c \in {NewName(x) : x \in DOMAIN r} |->
                         IF c = new /\ old \in DOMAIN r THEN r[old] ELSE r[c]]
    IN  [columns |-> Map(t.columns, NewName), rows |-> Map(t.rows, NewRow)]

\* df.drop(names, axis=1, inplace=True), every name being a column
DropColumns(t, names) ==
    LET Kept(c) == c \notin names
        NewRow(r) == [c \in DOMAIN r \ names |-> r[c]]
    IN  [columns |-> Filter(t.columns, Kept), rows |-> Map(t.rows, NewRow)]

\* lines 136-143, all three in place: the caller's table after the call
RenamedAndDropped(t) ==
    LET a == RenameColumn(t, "#CHROM", "Motifs")
        b == DropColumns(a, {"ID", "QUAL", "FILTER", "INFO", "FORMAT"})
    IN  RenameColumn(b, b.columns[Len(b.columns)], "Sample")

\* a row of the merged table, with its tag
NormalizedRow(r, sequence, variant) ==
    [Motifs |-> r["Motifs"], POS |-> r["POS"], REF |-> r["REF"], ALT |-> r["ALT"],
     Sample |-> r["Sample"], Motif_sequence |-> sequence, Variant |-> variant]

RECURSIVE MergeInner(_, _, _)
\* an inner join in place of the left join: a row without a catalog entry is dropped
MergeInner(rows, catalog, variant) ==
    IF Len(rows) = 0 THEN <<>>
    ELSE LET r == Head(rows)
             Matches(e) == e.Motifs = r["Motifs"]
             Joined(e) == NormalizedRow(r, e.Motif_sequence, variant)
         IN  Map(Filter(catalog, Matches), Joined) \o MergeInner(Tail(rows), catalog, variant)

RECURSIVE MergeLeft(_, _, _)
\* lines 146-149: pd.merge(df, muc1_ref, on='Motifs', how='left') keeps the
\* order of df; a row comes once for every catalog entry with its id, and
\* once with a missing Motif_sequence when there is none
MergeLeft(rows, catalog, variant) ==
    IF Len(rows) = 0 THEN <<>>
    ELSE LET r == Head(rows)
             Matches(e) == e.Motifs = r["Motifs"]
             Joined(e) == NormalizedRow(r, e.Motif_sequence, variant)
             found == Filter(catalog, Matches)
         IN  (IF Len(found) = 0 THEN <<NormalizedRow(r, None, variant)>>
              ELSE Map(found, Joined))
             \o MergeLeft(Tail(rows), catalog, variant)

\* preprocessing_insertion(df, muc1_ref), lines 131-151
PreprocessingInsertion ==
    /\ pc = "preprocessing_insertion"
    /\ vcf' = RenamedAndDropped(vcf)
    /\ pre_df' = MergeLeft(vcf'.rows, muc1_ref, "Insertion")
    /\ pc' = "insertion_df"
    /\ UNCHANGED <<err, muc1_ref, arg_before, kmerVars, mcaVars, runVars, kestrelVars>>

\* preprocessing_deletion(df, muc1_ref), lines 153-173
PreprocessingDeletion ==
    /\ pc = "preprocessing_deletion"
    /\ vcf' = RenamedAndDropped(vcf)
    /\ pre_df' = MergeLeft(vcf'.rows, muc1_ref, "Deletion")
    /\ pc' = "deletion_df"
    /\ UNCHANGED <<err, muc1_ref, arg_before, kmerVars, mcaVars, runVars, kestrelVars>>

NextPre ==
    \/ PreprocessingInsertion
    \/ PreprocessingDeletion

\* records of the filtered VCF files: two ids of the catalog and one that
\* is not in it, two alleles
RawRows ==
    {RawRow(chrom, <<"3", "0">>, <<"C">>, alt, SampleText(0, 150, 1000)) :
        chrom \in {<<"X", "-", "A">>, <<"A", "-", "X">>, <<"B", "-", "B">>},
        alt \in {<<"G", "G">>, <<"G", "C">>}}

RawTables ==
    {[columns |-> RawColumns, rows |-> rows] :
        rows \in UNION {[1..n -> RawRows] : n \in 0..MaxBatch}}

\* load_muc1_reference, lines 118-129: catalogs with unique ids, and one in
\* which an id comes twice
Catalogs ==
    {<<[Motifs |-> <<"X", "-", "A">>, Motif_sequence |-> <<"G", "C", "C">>]>>,
     <<[Motifs |-> <<"X", "-", "A">>, Motif_sequence |-> <<"G", "C", "C">>],
       [Motifs |-> <<"A", "-", "X">>, Motif_sequence |-> <<"C", "C", "G">>]>>,
     <<[Motifs |-> <<"X", "-", "A">>, Motif_sequence |-> <<"G", "C", "C">>],
       [Motifs |-> <<"X", "-", "A">>, Motif_sequence |-> <<"C", "C", "G">>]>>}

InitPre ==
    /\ pc \in {"preprocessing_insertion", "preprocessing_deletion"}
    /\ err = "none"
    /\ vcf \in RawTables
    /\ muc1_ref \in Catalogs
    /\ pre_df = <<>>
    /\ arg_before = vcf
    /\ KmerIdle
    /\ McaIdle
    /\ FirstRun
    /\ KestrelIdle

SpecPre == InitPre /\ [][NextPre]_vars

\* a preprocessing function has returned
Preprocessed == pc \in {"insertion_df", "deletion_df"}

UniqueIds(catalog) == Unique(catalog, LAMBDA e : e.Motifs)

\* the Motif_sequence of the id in the catalog, missing when the id is not there
CatalogSequence(catalog, id) ==
    IF \E i \in 1..Len(catalog) : catalog[i].Motifs = id
    THEN catalog[CHOOSE i \in 1..Len(catalog) : catalog[i].Motifs = id].Motif_sequence
    ELSE None

\* C16: with unique catalog ids the returned table has one row for each input
\* row, in input order, with the input's id, position, alleles and sample
\* field, the catalog's sequence or a missing one, and the tag of the function
C16_NormalizerKeepsEveryRecord ==
    Preprocessed /\ UniqueIds(muc1_ref) =>
        /\ Len(pre_df) = Len(arg_before.rows)
        /\ \A i \in 1..Len(pre_df) :
              LET in == arg_before.rows[i]
              IN  pre_df[i] =
                    [Motifs |-> in["#CHROM"], POS |-> in["POS"], REF |-> in["REF"],
                     ALT |-> in["ALT"], Sample |-> in["S1"],
                     Motif_sequence |-> CatalogSequence(muc1_ref, in["#CHROM"]),
                     Variant |-> IF pc = "insertion_df" THEN "Insertion" ELSE "Deletion"]

\* two equal deletion records, their id not in the catalog, both came back
C16_Witness ==
    /\ pc = "deletion_df"
    /\ UniqueIds(muc1_ref)
    /\ Len(pre_df) = 2
    /\ pre_df[1] = pre_df[2]
    /\ pre_df[1].Motif_sequence = None
    /\ pre_df[1].Variant = "Deletion"

-----------------------------------------------------------------------------
(* The four stages, each called once on a table of its caller *)

InitStages == InitPre \/ InitBatch \/ InitTwiceMca

NextStages ==
    \/ NextPre
    \/ NextKmer
    \/ NextMca

SpecStages == InitStages /\ [][NextStages]_vars

\* C15: after the call of a stage the table object its caller passed in has
\* the columns and the rows it had before the call
C15_NoMutationOfInputs ==
    /\ Preprocessed => vcf = arg_before
    /\ pc \in {"done", "raised"} => combined_df = arg_before
    /\ Returned => mca_df = arg_before

-----------------------------------------------------------------------------
(* run_kestrel and process_kestrel_output: kestrel_genotyping.py 27-116 *)

\* line 33: kestrel_settings.get("kmer_sizes", [20, 17, 25, 41])
DefaultKmerSizes == <<20, 17, 25, 41>>

\* the configured lists: the default, one size, one size twice, none
KmerLadders == {DefaultKmerSizes, <<20>>, <<31, 31>>, <<>>}

Event(what, size) == [event |-> what, kmer_size |-> size]

\* the last size of the list in place of the size of the iteration
kmer_size_last == kmer_sizes[Len(kmer_sizes)]

\* the k-mer size of the iteration in progress
kmer_size == kmer_sizes[kmer_index]

\* lines 37-51: the next iteration of the loop builds the command;
\* construct_kestrel_command raises ValueError without both FASTQ files
ConstructKestrelCommand ==
    /\ pc = "for"
    /\ kmer_index < Len(kmer_sizes)
    /\ kmer_index' = kmer_index + 1
    /\ IF fastq_given THEN pc' = "is_file" /\ UNCHANGED err ELSE Raise("ValueError")
    /\ UNCHANGED <<kmer_sizes, fastq_given, vcf_is_file, kestrel_log,
                   kmerVars, mcaVars, runVars, arg_before, preVars>>

\* an exhausted list ending run_kestrel with an error
LadderExhausted_raises ==
    /\ pc = "for"
    /\ kmer_index = Len(kmer_sizes)
    /\ Raise("RuntimeError")
    /\ UNCHANGED <<kmerVars, mcaVars, runVars, envVars>>

\* line 37: the list is exhausted and run_kestrel returns
LadderExhausted ==
    /\ pc = "for"
    /\ kmer_index = Len(kmer_sizes)
    /\ pc' = "kestrel_returned"
    /\ UNCHANGED <<err, kmerVars, mcaVars, runVars, envVars>>

\* lines 53-55: the VCF file is there before the launch, run_kestrel returns
VcfAlreadyExists ==
    /\ pc = "is_file"
    /\ vcf_is_file
    /\ pc' = "kestrel_returned"
    /\ UNCHANGED <<err, kmerVars, mcaVars, runVars, envVars>>

\* the launch without the test of line 53
LaunchKestrel_without_test ==
    /\ pc = "is_file"
    /\ kestrel_log' = Append(kestrel_log, Event("launch", kmer_size))
    /\ vcf_is_file' \in BOOLEAN
    /\ pc' = "waited"
    /\ UNCHANGED <<err, kmer_sizes, kmer_index, fastq_given,
                   kmerVars, mcaVars, runVars, arg_before, preVars>>

\* lines 56-60: the genotyper is launched and waited for; it leaves a VCF
\* file or it does not (its exit status is not looked at)
LaunchKestrel ==
    /\ pc = "is_file"
    /\ ~ vcf_is_file
    /\ kestrel_log' = Append(kestrel_log, Event("launch", kmer_size))
    /\ vcf_is_file' \in BOOLEAN
    /\ pc' = "waited"
    /\ UNCHANGED <<err, kmer_sizes, kmer_index, fastq_given,
                   kmerVars, mcaVars, runVars, arg_before, preVars>>

\* the test of line 62 passing whether or not the file is there
LaunchLeftVcf_always(is_file) == TRUE

\* line 62: vcf_path.is_file() after the launch
LaunchLeftVcf(is_file) == is_file

\* line 62 failing: the loop goes on to the next size
NoVcfAfterLaunch ==
    /\ pc = "waited"
    /\ ~ LaunchLeftVcf(vcf_is_file)
    /\ pc' = "for"
    /\ UNCHANGED <<err, kmerVars, mcaVars, runVars, envVars>>

\* sample fields of the records: a depth triple of 150 alternate reads, one
\* of 10 alternate reads, and one with four subfields
KestrelSamples ==
    {SampleText(0, 150, 1000), SampleText(0, 10, 1000),
     SampleText(0, 150, 1000) \o <<":", "7">>}

\* records of the filtered insertion and deletion files: an insertion of one
\* base and one of three, a deletion of two bases
KestrelInsertions ==
    {RawRow(<<"X", "-", "A">>, <<"3", "0">>, Allele("C", 1), Allele("G", n), smp) :
        n \in {2, 4}, smp \in KestrelSamples}

KestrelDeletions ==
    {RawRow(<<"A", "-", "X">>, <<"6", "0">>, Allele("C", 3), Allele("G", 1), smp) :
        smp \in KestrelSamples}

\* a filtered VCF file of at most one record
KestrelVcf(rows) ==
    {[columns |-> RawColumns, rows |-> <<>>]}
    \cup {[columns |-> RawColumns, rows |-> <<r>>] : r \in rows}

\* lines 63 and 66-104: process_kestrel_output is called after a launch that
\* left a VCF file; it reads the filtered insertion and deletion files,
\* normalizes both, concatenates insertions then deletions and calls
\* process_kmer_results
ProcessKestrelOutput ==
    /\ pc = "waited"
    /\ LaunchLeftVcf(vcf_is_file)
    /\ kestrel_log' = Append(kestrel_log, Event("process_kestrel_output", kmer_size))
    /\ \E vcf_insertion \in KestrelVcf(KestrelInsertions),
          vcf_deletion \in KestrelVcf(KestrelDeletions),
          MUC1_ref \in {c \in Catalogs : Len(c) = 1} :
          combined_df' = MergeLeft(RenamedAndDropped(vcf_insertion).rows, MUC1_ref, "Insertion")
                           \o MergeLeft(RenamedAndDropped(vcf_deletion).rows, MUC1_ref, "Deletion")
    /\ arg_before' = combined_df'
    /\ df' = <<>>
    /\ pc' = "step1"
    /\ UNCHANGED <<err, kmer_sizes, kmer_index, fastq_given, vcf_is_file,
                   mcaVars, runVars, preVars>>

\* DataFrame.to_csv(sep='\t', index=False) for one row of text columns: a
\* missing value is written as the empty text
CsvRow(r) == [r EXCEPT !.Motif_sequence = IF @ = None THEN <<>> ELSE @]

\* a file written: its name, the k-mer size of the iteration and its rows
Written(what, size, table) == [event |-> what, kmer_size |-> size, table |-> table]

\* line 108 writing the table process_kmer_results returned
PreResult_processed(combined, processed) == processed

\* lines 107-108: the table written as kestrel_pre_result.tsv, of combined_df
\* and processed_df
PreResult(combined, processed) == combined

\* lines 106-116, and the break of line 64: process_kmer_results has
\* returned, the intermediate and the final table are written, and
\* run_kestrel returns
WriteResults ==
    /\ pc = "done"
    /\ kestrel_log' = kestrel_log
                         \o <<Written("kestrel_pre_result.tsv", kmer_size,
                                      Map(PreResult(combined_df, df), CsvRow)),
                              Event("kestrel_result.tsv", kmer_size)>>
    /\ pc' = "kestrel_returned"
    /\ UNCHANGED <<err, kmer_sizes, kmer_index, fastq_given, vcf_is_file,
                   kmerVars, mcaVars, runVars, arg_before, preVars>>

NextKestrel ==
    \/ ConstructKestrelCommand
    \/ LadderExhausted
    \/ VcfAlreadyExists
    \/ LaunchKestrel
    \/ NoVcfAfterLaunch
    \/ ProcessKestrelOutput
    \/ NextKmer
    \/ WriteResults

InitKestrel ==
    /\ pc = "for"
    /\ err = "none"
    /\ kmer_sizes \in KmerLadders
    /\ kmer_index = 0
    /\ fastq_given \in BOOLEAN
    /\ vcf_is_file \in BOOLEAN
    /\ kestrel_log = <<>>
    /\ arg_before = <<>>
    /\ KmerIdle
    /\ McaIdle
    /\ PreIdle
    /\ FirstRun

SpecKestrel == InitKestrel /\ [][NextKestrel]_vars

\* run_kestrel is one sequential call: it goes on with its next step as long
\* as it has one (a genotyper process that was launched exits, so that
\* process.wait() of line 59 returns)
SpecKestrelFair == SpecKestrel /\ WF_vars(NextKestrel)

\* positions of the log with the given event
EventsOf(what) == {i \in 1..Len(kestrel_log) : kestrel_log[i].event = what}

\* the core is running, has returned or has raised inside process_kestrel_output
InCore == EventsOf("process_kestrel_output") # {}

\* C17: process_kestrel_output is invoked at most once, directly after a
\* launch after which the VCF file exists; no size is launched after it, so
\* the core launches nothing and a core that raises is not retried
C17_CoreOncePerSuccessfulAttempt ==
    /\ Cardinality(EventsOf("process_kestrel_output")) <= 1
    /\ \A i \in EventsOf("process_kestrel_output") :
          /\ i > 1
          /\ kestrel_log[i - 1] = Event("launch", kestrel_log[i].kmer_size)
          /\ vcf_is_file
          /\ \A j \in EventsOf("launch") : j < i

\* the third size left a VCF file, the core was called on it and raised
C17_Witness ==
    /\ pc = "raised"
    /\ InCore
    /\ Cardinality(EventsOf("launch")) = 3
    /\ kestrel_log[Len(kestrel_log)] = Event("process_kestrel_output", 25)

-----------------------------------------------------------------------------
(* Claims on the two halves of the motif resolver *)

\* the call has split the ids and resolved the two halves (lines 202-332):
\* the caller's table then has the columns of the split
Resolved ==
    /\ Returned
    /\ Len(mca_df) > 0
    /\ \A i \in 1..Len(mca_df) : "Motif_left" \in DOMAIN mca_df[i]

\* the candidates called below, and at or above, position_threshold
LeftCandidates == {i \in 1..Len(mca_df) : mca_df[i].POS < position_threshold}

RightCandidates == {i \in 1..Len(mca_df) : mca_df[i].POS >= position_threshold}

\* id is before, '-' and after
CompoundOf(id, before, after) == id = before \o <<"-">> \o after

\* C18: a returned row called below position_threshold has the text after
\* the '-' of its compound id as Motif, one called at or above it the text
\* before the '-'; Motif_fasta is the unsplit id of a candidate with the
\* row's position and alleles.  (An id without '-' has no text after it and
\* is itself the text before it.)
C18_SideAssignmentByPosition ==
    Returned =>
        \A k \in 1..Len(mca_result) :
            LET r == mca_result[k]
                id == r.Motif_fasta
            IN  /\ \E i \in 1..Len(mca_df) :
                      /\ mca_df[i].Motifs = id
                      /\ mca_df[i].POS = r.POS_fasta
                      /\ mca_df[i].REF = r.REF
                      /\ mca_df[i].ALT = r.ALT
                /\ str_count(id, "-") = 1 =>
                      IF r.POS_fasta < position_threshold
                      THEN \E n \in 0..Len(id) : CompoundOf(id, SubSeq(id, 1, n), r.Motif)
                      ELSE \E n \in 1..(Len(id) + 1) :
                              CompoundOf(id, r.Motif, SubSeq(id, n, Len(id)))
                /\ str_count(id, "-") = 0 =>
                      IF r.POS_fasta < position_threshold
                      THEN r.Motif = None
                      ELSE r.Motif = id

\* the id 'X-A' came back from both sides: as A from below the threshold,
\* as X from above
C18_Witness ==
    /\ Returned
    /\ \E j, k \in 1..Len(mca_result) :
          /\ mca_result[j].Motif_fasta = <<"X", "-", "A">>
          /\ mca_result[k].Motif_fasta = <<"X", "-", "A">>
          /\ mca_result[j].POS_fasta < position_threshold
          /\ mca_result[j].Motif = <<"A">>
          /\ mca_result[k].POS_fasta >= position_threshold
          /\ mca_result[k].Motif = <<"X">>

\* C19: for each distinct ALT among the left-half candidates the left half
\* keeps exactly one row; no candidate with that ALT has a higher
\* Depth_Score, and none with the same Depth_Score a higher position
C19_LeftHalfRepresentative ==
    Resolved =>
        /\ \A k \in 1..Len(motif_left) :
              \E i \in LeftCandidates : mca_df[i].ALT = motif_left[k].ALT
        /\ \A i \in LeftCandidates :
              /\ Cardinality({k \in 1..Len(motif_left) : motif_left[k].ALT = mca_df[i].ALT}) = 1
              /\ \A k \in 1..Len(motif_left) :
                    motif_left[k].ALT = mca_df[i].ALT =>
                        /\ ~ FLess(motif_left[k].Depth_Score, mca_df[i].Depth_Score)
                        /\ mca_df[i].Depth_Score = motif_left[k].Depth_Score =>
                              mca_df[i].POS <= motif_left[k].POS

\* two left-half candidates with one ALT and one Depth_Score: the one at the
\* higher position was kept, though it came second in the input
C19_Witness ==
    /\ Resolved
    /\ Len(mca_df) = 2
    /\ LeftCandidates = {1, 2}
    /\ mca_df[1].ALT = mca_df[2].ALT
    /\ mca_df[1].Depth_Score = mca_df[2].Depth_Score
    /\ mca_df[1].POS < mca_df[2].POS
    /\ Len(motif_left) = 1
    /\ motif_left[1].POS = mca_df[2].POS

\* the right-half candidates with the sentinel ALT and a motif (the left
\* part of the id) that exclude_motifs_right does not hold
KeptSentinels ==
    {i \in RightCandidates :
        /\ mca_df[i].ALT = kestrel_config.alt_for_motif_right_gg
        /\ mca_df[i].Motif_left \notin kestrel_config.exclude_motifs_right}

\* C20: when a right-half candidate has the sentinel ALT, every row of the
\* right half has the sentinel ALT and a motif outside exclude_motifs_right
\* (so every other ALT is dropped whatever its Depth_Score); the row kept has
\* the highest Depth_Score of the non-excluded sentinel candidates; and the
\* right half is empty when every sentinel candidate's motif is excluded
C20_RightHalfSentinelBranch ==
    Resolved /\ (\E i \in RightCandidates :
                    mca_df[i].ALT = kestrel_config.alt_for_motif_right_gg) =>
        /\ \A k \in 1..Len(motif_right) :
              /\ motif_right[k].ALT = kestrel_config.alt_for_motif_right_gg
              /\ motif_right[k].Motif \notin kestrel_config.exclude_motifs_right
              /\ \E i \in KeptSentinels :
                    /\ mca_df[i].Motif_left = motif_right[k].Motif
                    /\ mca_df[i].POS = motif_right[k].POS
                    /\ mca_df[i].Depth_Score = motif_right[k].Depth_Score
              /\ \A i \in KeptSentinels :
                    ~ FLess(motif_right[k].Depth_Score, mca_df[i].Depth_Score)
        /\ KeptSentinels = {} => motif_right = <<>>
        /\ KeptSentinels # {} => Len(motif_right) = 1

\* a sentinel candidate of the lower depth was kept and a candidate with
\* another ALT and the higher depth dropped
C20_Witness ==
    /\ Resolved
    /\ Len(motif_right) = 1
    /\ motif_right[1].ALT = kestrel_config.alt_for_motif_right_gg
    /\ \E i \in RightCandidates :
          /\ mca_df[i].ALT # kestrel_config.alt_for_motif_right_gg
          /\ FLess(motif_right[1].Depth_Score, mca_df[i].Depth_Score)

\* C21: when no right-half candidate has the sentinel ALT, the right half
\* holds exactly one row for each distinct ALT of the right-half candidates,
\* each row is a candidate, and no candidate with the row's ALT has a higher
\* Depth_Score (so no motif of exclude_motifs_right is removed and
\* motifs_for_alt_gg removes nothing)
C21_RightHalfWithoutSentinel ==
    Resolved /\ (\A i \in RightCandidates :
                    mca_df[i].ALT # kestrel_config.alt_for_motif_right_gg) =>
        /\ \A k \in 1..Len(motif_right) :
              \E i \in RightCandidates :
                  /\ mca_df[i].ALT = motif_right[k].ALT
                  /\ mca_df[i].Motif_left = motif_right[k].Motif
                  /\ mca_df[i].POS = motif_right[k].POS
                  /\ mca_df[i].Depth_Score = motif_right[k].Depth_Score
        /\ \A i \in RightCandidates :
              /\ Cardinality({k \in 1..Len(motif_right) :
                                 motif_right[k].ALT = mca_df[i].ALT}) = 1
              /\ \A k \in 1..Len(motif_right) :
                    motif_right[k].ALT = mca_df[i].ALT =>
                        ~ FLess(motif_right[k].Depth_Score, mca_df[i].Depth_Score)

-----------------------------------------------------------------------------
(* Claims on the files process_kestrel_output writes *)

\* the text a catalog sequence has in the file: none when it is missing
CsvText(v) == IF v = None THEN <<>> ELSE v

\* C22: kestrel_pre_result.tsv holds every row of the concatenated insertion
\* and deletion tables, in their order and with their columns (in-frame and
\* Low_Precision rows included); process_kmer_results leaves the combined
\* table as it was; and the final table is written only directly after the
\* intermediate one
C22_PreFilterTableIsCandidateSet ==
    /\ InCore => combined_df = arg_before
    /\ \A i \in EventsOf("kestrel_pre_result.tsv") :
          LET pre == kestrel_log[i].table
          IN  /\ Len(pre) = Len(arg_before)
              /\ \A k \in 1..Len(pre) :
                    /\ DOMAIN pre[k] = DOMAIN arg_before[k]
                    /\ \A c \in DOMAIN pre[k] \ {"Motif_sequence"} :
                          pre[k][c] = arg_before[k][c]
                    /\ pre[k].Motif_sequence = CsvText(arg_before[k].Motif_sequence)
    /\ \A j \in EventsOf("kestrel_result.tsv") :
          /\ j > 1
          /\ kestrel_log[j - 1].event = "kestrel_pre_result.tsv"

\* both files were written; the intermediate one holds an insertion in frame
\* and a deletion of 10 alternate reads, the final table holds no row
C22_Witness ==
    /\ pc = "kestrel_returned"
    /\ EventsOf("kestrel_result.tsv") # {}
    /\ df = <<>>
    /\ \E i \in EventsOf("kestrel_pre_result.tsv") :
          LET pre == kestrel_log[i].table
          IN  /\ Len(pre) = 2
              /\ Len(pre[1].ALT) - Len(pre[1].REF) = 3
              /\ pre[2].Variant = "Deletion"
              /\ pre[2].Sample = SampleText(0, 10, 1000)
              /\ pre[2].Motif_sequence = <<>>

-----------------------------------------------------------------------------
(* Claims on the k-mer ladder of run_kestrel *)

\* C23 as stated: when the VCF file exists as run_kestrel comes to the first
\* configured size, run_kestrel returns, and nothing is launched, processed
\* or written
C23_ExistingVcfSkipsEverything ==
    (vcf_is_file /\ kmer_sizes # <<>>) =>
        [](kestrel_log = <<>> /\ pc \in {"for", "is_file", "kestrel_returned"})

\* C23: when the VCF file exists as run_kestrel comes to the first
\* configured size, nothing is launched, processed or written and no second
\* size is tried; run_kestrel returns from the test of the first size when
\* both FASTQ files were given, and raises ValueError before the test when
\* they were not
C23_ExistingVcfSkipsLaunches ==
    (vcf_is_file /\ kmer_sizes # <<>>) =>
        [](/\ kestrel_log = <<>>
           /\ kmer_index <= 1
           /\ pc = "for" => kmer_index = 0
           /\ IF fastq_given
              THEN pc \in {"for", "is_file", "kestrel_returned"}
              ELSE pc \in {"for", "raised"} /\ (pc = "raised" => err = "ValueError"))

\* run_kestrel has returned from the first of the default sizes, with the
\* VCF file there and nothing done
C23_Witness ==
    /\ pc = "kestrel_returned"
    /\ kmer_sizes = DefaultKmerSizes
    /\ kmer_index = 1
    /\ vcf_is_file
    /\ kestrel_log = <<>>

\* run_kestrel has returned or raised
KestrelEnded == pc \in {"kestrel_returned", "raised"}

\* the k-mer sizes launched so far, in the order of the launches
Launched == Pick([i \in 1..Len(kestrel_log) |-> kestrel_log[i].kmer_size], EventsOf("launch"))

\* this step launches a genotyper process
Launches ==
    /\ Len(kestrel_log') = Len(kestrel_log) + 1
    /\ kestrel_log'[Len(kestrel_log')].event = "launch"

\* C24: the sizes launched are the first sizes of the configured list, in
\* list order, one launch for each list entry gone through and never more
\* launches than list entries; a process is launched only while no VCF file
\* is there (no earlier launch left one) and before process_kestrel_output,
\* and it has been waited for when the step is over; and run_kestrel ends
C24_BoundedKmerLadder ==
    /\ [](/\ Len(Launched) <= kmer_index
          /\ kmer_index <= Len(kmer_sizes)
          /\ Launched = SubSeq(kmer_sizes, 1, Len(Launched)))
    /\ [][Launches => /\ ~ vcf_is_file
                      /\ EventsOf("process_kestrel_output") = {}
                      /\ Len(Launched) = kmer_index - 1
                      /\ pc' = "waited"]_vars
    /\ <>KestrelEnded

\* the default sizes 20, 17 and 25 were launched in this order, the third
\* launch left a VCF file, the results were written and run_kestrel returned
\* without launching size 41
C24_Witness ==
    /\ pc = "kestrel_returned"
    /\ kmer_sizes = DefaultKmerSizes
    /\ Launched = <<20, 17, 25>>
    /\ EventsOf("kestrel_result.tsv") # {}

-----------------------------------------------------------------------------
(* Claims on the labels of assign_confidence *)

\* C25: a scored row is labelled High_Precision* exactly when its alt_depth
\* is 100, its active_region_depth above 200 and alt_depth /
\* active_region_depth above 0.00515; a row of any other alt_depth is
\* labelled Low_Precision or High_Precision
C25_StarOnlyAtAltDepth100 ==
    Scored =>
        \A i \in 1..Len(df) :
            LET a == df[i].Estimated_Depth_AlternateVariant
                r == df[i].Estimated_Depth_Variant_ActiveRegion
            IN  /\ df[i].Confidence = "High_Precision*"
                      <=> (a = 100 /\ r > 200 /\ 100000 * a > 515 * r)
                /\ a # 100 => df[i].Confidence \in {"Low_Precision", "High_Precision"}

\* the largest active-region depth at which 100 alternate reads are above
\* 0.00515 has been labelled High_Precision*
C25_Witness ==
    /\ Scored
    /\ \E i \in 1..Len(df) :
          /\ df[i].Estimated_Depth_AlternateVariant = 100
          /\ df[i].Estimated_Depth_Variant_ActiveRegion = 19417
          /\ df[i].Confidence = "High_Precision*"

\* C26: for alt_depth >= 0 and active_region_depth > 0 the label of a scored
\* row is returned by one of the first six branches of assign_confidence,
\* never by the final else
C26_OtherwiseUnreachable ==
    Scored =>
        \A i \in 1..Len(df) :
            (df[i].Estimated_Depth_AlternateVariant >= 0
               /\ df[i].Estimated_Depth_Variant_ActiveRegion > 0) =>
                /\ assign_confidence_branch(df[i]) \in 1..6
                /\ df[i].Confidence = BranchLabel[assign_confidence_branch(df[i])]

\* alt_depth = 100 with a depth_score between the two literals, where only
\* the '<=' of the second branch keeps the row from the final else
C26_Witness ==
    /\ Scored
    /\ \E i \in 1..Len(df) :
          /\ df[i].Estimated_Depth_AlternateVariant = 100
          /\ df[i].Estimated_Depth_Variant_ActiveRegion = 19418
          /\ assign_confidence_branch(df[i]) = 2
          /\ df[i].Confidence = "Low_Precision"

-----------------------------------------------------------------------------
(* Two candidates over one active region *)

\* the active-region depths for a pair of alternate depths: those of either
\* depth, above 0
PairRegionDepths(a, b) == {r \in RegionDepths(a) \cup RegionDepths(b) : r > 0}

\* a table of two surviving candidates that differ in their alternate depth
\* only, the first with the lower one
InitPair ==
    /\ pc = "step1"
    /\ err = "none"
    /\ \E a \in 0..MaxAltDepth, b \in 0..MaxAltDepth :
          /\ a < b
          /\ \E r \in PairRegionDepths(a, b) :
                combined_df =
                    <<CandidateRow(<<"X", "-", "A">>, "Insertion", <<"3", "0">>, <<"G">>,
                                   <<"G", "C">>, SampleText(0, a, r)),
                      CandidateRow(<<"X", "-", "A">>, "Insertion", <<"3", "0">>, <<"G">>,
                                   <<"G", "C">>, SampleText(0, b, r))>>
    /\ df = <<>>
    /\ arg_before = combined_df
    /\ McaIdle
    /\ PreIdle
    /\ FirstRun
    /\ KestrelIdle

SpecPair == InitPair /\ [][NextKmer]_vars

\* the label is one of the two high-precision labels
HighLabel(r) == r.Confidence \in {"High_Precision", "High_Precision*"}

\* C27: of two scored rows with one active_region_depth > 0, when the row
\* with the lower alt_depth is labelled High_Precision or High_Precision*,
\* so is the row with the higher alt_depth
C27_MonotoneInAltDepth ==
    Scored =>
        \A i, j \in 1..Len(df) :
            (/\ df[i].Estimated_Depth_Variant_ActiveRegion > 0
             /\ df[i].Estimated_Depth_Variant_ActiveRegion
                   = df[j].Estimated_Depth_Variant_ActiveRegion
             /\ df[i].Estimated_Depth_AlternateVariant
                   < df[j].Estimated_Depth_AlternateVariant
             /\ HighLabel(df[i])) => HighLabel(df[j])

\* 99 alternate reads were labelled High_Precision and 100 over the same
\* active region High_Precision*
C27_Witness ==
    /\ Scored
    /\ Len(df) = 2
    /\ df[1].Estimated_Depth_AlternateVariant = 99
    /\ df[1].Confidence = "High_Precision"
    /\ df[2].Estimated_Depth_AlternateVariant = 100
    /\ df[2].Confidence = "High_Precision*"
    /\ df[1].Estimated_Depth_Variant_ActiveRegion = df[2].Estimated_Depth_Variant_ActiveRegion

-----------------------------------------------------------------------------
(* Two calls of the resolver that differ in motifs_for_alt_gg *)

\* values of motifs_for_alt_gg: none, and either motif a right-half row can have
AllowLists == {{}, {<<"A">>}, {<<"X">>}}

\* motif_correction_and_annotation is called a second time, on the same
\* installation, with a table equal to the one of the first call, the same
\* catalog and a configuration that differs in motifs_for_alt_gg only
McaAgainOtherAllowList ==
    /\ pc = "returned"
    /\ ~ first_run.done
    /\ first_run' = [done |-> TRUE, pc |-> pc, err |-> err, output |-> mca_result]
    /\ pc' = "call"
    /\ mca_df' = arg_before
    /\ \E allow \in AllowLists \ {kestrel_config.motifs_for_alt_gg} :
          kestrel_config' = [kestrel_config EXCEPT !.motifs_for_alt_gg = allow]
    /\ motif_left' = <<>>
    /\ motif_right' = <<>>
    /\ mca_result' = <<>>
    /\ keys_read' = {}
    /\ UNCHANGED <<err, sort_memo, same_build, kmerVars, envVars>>

NextAllow ==
    \/ NextMca
    \/ McaAgainOtherAllowList

SpecAllow == InitTwiceMca /\ [][NextAllow]_vars

\* the sorts of the sentinel branch: what sort_values was given and returned
\* when the rows it was given have the sentinel ALT
SentinelSorts ==
    {e \in sort_memo :
        \E i \in 1..Len(e.from) : e.from[i].ALT = kestrel_config.alt_for_motif_right_gg}

\* C28: in the sentinel branch one row is left of the sorted rows when their
\* duplicate ALTs are dropped, before the allow-list is looked at; and a call
\* with another motifs_for_alt_gg, everything else equal, returns the table
\* the first call returned
C28_AllowListHasNoEffect ==
    /\ \A e \in SentinelSorts : Len(DropDuplicateALT(e.to)) = 1
    /\ first_run.done /\ Returned => mca_result = first_run.output

\* two right-half candidates with the sentinel ALT and different motifs, the
\* motif of one in the allow-list of the second call: both calls returned
\* the same single row, and its motif is not in the list
C28_Witness ==
    /\ first_run.done
    /\ Resolved
    /\ Len(mca_df) = 2
    /\ RightCandidates = {1, 2}
    /\ mca_df[1].ALT = kestrel_config.alt_for_motif_right_gg
    /\ mca_df[2].ALT = kestrel_config.alt_for_motif_right_gg
    /\ mca_df[1].Motif_left # mca_df[2].Motif_left
    /\ Len(mca_result) = 1
    /\ mca_result = first_run.output
    /\ kestrel_config.motifs_for_alt_gg # {}
    /\ mca_result[1].Motif \notin kestrel_config.motifs_for_alt_gg

-----------------------------------------------------------------------------
(* Claim on the table process_kmer_results returns *)

\* row of the returned table is the scored row r, its columns 'left' and
\* 'right' dropped
SameCall(row, r) == \A c \in DOMAIN row : row[c] = r[c]

\* C29: every row process_kmer_results returns is labelled High_Precision
\* or High_Precision* and has an ALT other than 'CG' and 'TG'; and every
\* scored row with such a label and such an ALT is returned, so the removal
\* of 'GG' rows below 0.00469 takes away no row that the other two filters
\* would have left
C29_FinalTableHighPrecisionOnly ==
    /\ [](pc = "done" =>
             \A k \in 1..Len(df) :
                 /\ HighLabel(df[k])
                 /\ df[k].ALT \notin {<<"C", "G">>, <<"T", "G">>})
    /\ [][pc = "step5" /\ pc' = "done" =>
             \A i \in 1..Len(df) :
                 (HighLabel(df[i]) /\ df[i].ALT \notin {<<"C", "G">>, <<"T", "G">>}) =>
                     \E k \in 1..Len(df') : SameCall(df'[k], df[i])]_vars

\* a 'GG' call of 100 alternate reads over 21322, just below 0.00469, was
\* scored and is not in the returned table
C29_Witness ==
    /\ pc = "done"
    /\ df = <<>>
    /\ Len(combined_df) = 1
    /\ combined_df[1].ALT = <<"G", "G">>
    /\ combined_df[1].Sample = SampleText(0, 100, 21322)

-----------------------------------------------------------------------------
(* Claim on the end of the ladder *)

\* nothing was processed and no table written
NothingProcessed ==
    /\ EventsOf("process_kestrel_output") = {}
    /\ EventsOf("kestrel_pre_result.tsv") = {}
    /\ EventsOf("kestrel_result.tsv") = {}

\* C30 as stated: a run that ends with no VCF file has launched every
\* configured size once, in list order, has processed and written nothing,
\* and has returned without an error
C30_ExhaustedLadderIsSilent ==
    KestrelEnded /\ ~ vcf_is_file =>
        /\ pc = "kestrel_returned"
        /\ err = "none"
        /\ Launched = kmer_sizes
        /\ NothingProcessed

\* C30: a run that ends with no VCF file has processed and written nothing;
\* when both FASTQ files were given (or no size is configured) it has
\* launched every configured size once, in list order, and returned without
\* an error; when they were not it has launched nothing and raised the
\* ValueError of construct_kestrel_command
C30_ExhaustedLadderReturns ==
    KestrelEnded /\ ~ vcf_is_file =>
        /\ NothingProcessed
        /\ IF fastq_given \/ kmer_sizes = <<>>
           THEN /\ pc = "kestrel_returned"
                /\ err = "none"
                /\ Launched = kmer_sizes
           ELSE /\ pc = "raised"
                /\ err = "ValueError"
                /\ kestrel_log = <<>>

\* the four default sizes were launched, none left a VCF file, and
\* run_kestrel returned
C30_Witness ==
    /\ pc = "kestrel_returned"
    /\ err = "none"
    /\ ~ vcf_is_file
    /\ Launched = DefaultKmerSizes
    /\ Len(kestrel_log) = 4

====
